---- MODULE Spec2Model ----
(***************************************************************************)
(* Model of the audio segmentation engine of english-japanese-transcriber  *)
(* (src/src/audio/segmenter.py), of its text processor                     *)
(* (src/src/transcription/processor.py), of the retry handler of the demo  *)
(* (src/demo/utils/retry_handler.py) and of the polling of the language    *)
(* detector (src/src/language/detector.py).                                *)
(*                                                                         *)
(* Time is in milliseconds, as in pydub.  An audio buffer is mono 8-bit    *)
(* PCM at 1000 frames per second, so one frame is one millisecond and a    *)
(* millisecond slice is exact.  Its content is piecewise constant: a       *)
(* sequence of amplitude levels, each held for GrainMs milliseconds.       *)
(* A segment is the range [start, end) of the buffer it was cut from.      *)
(***************************************************************************)
EXTENDS Integers, Sequences, FiniteSets, TLC

VARIABLES given, segmenter, ctorError, call, result, audio, first, tasks,
          resources, processor, handler, detection, loop

\* the state of the text processor's construction, of a run of
\* RetryHandler.retry_operation, of a run of detect_language and of the
\* window loop of the fixed-length split
services == <<resources, processor, handler, detection, loop>>

vars == <<given, segmenter, ctorError, call, result, audio, first, tasks,
          resources, processor, handler, detection, loop>>

(***************************************************************************)
(* Bounds of the model.                                                    *)
(***************************************************************************)
GrainMs == 75
MaxGrains == 4
MaxTextLen == 4
MaxPieces == 3
MaxEnglishLen == 5
MaxRetriesBound == 3

(***************************************************************************)
(* Input sets.                                                             *)
(***************************************************************************)
Levels == {0, 16, 100}
MinSilenceLens == {0, 50}
SilenceThreshs == {-16}
KeepSilences == {-1, 30}
SegmentDurations == {0, 100, 150}
MinSegmentLengths == {0, 75, 120}
MaxSegmentLengths == {50, 130}
Overlaps == {-10, 0, 40, 150}

Configs ==
    [min_silence_len : MinSilenceLens, silence_thresh : SilenceThreshs,
     keep_silence : KeepSilences, segment_duration : SegmentDurations,
     min_segment_length : MinSegmentLengths,
     max_segment_length : MaxSegmentLengths, overlap : Overlaps]

Buffers == UNION {[1..n -> Levels] : n \in 0..MaxGrains}

Methods == {"silence", "fixed", "energy", "invalid", "Silence"}

\* the characters of the texts: an ASCII letter, digit, space, exclamation
\* mark and period, the ideographic space and full stop, and the half-width
\* ideographic comma
TextChars == {"a", "1", " ", "!", ".", "U+3000", "U+3002", "U+FF64"}

Texts == UNION {[1..n -> TextChars] : n \in 0..MaxTextLen}

LanguageCodes == {"ja", "en", "fr", "JA"}

\* energy thresholds as rationals num/den
Thresholds ==
    {[num |-> -1, den |-> 10], [num |-> 0, den |-> 1], [num |-> 1, den |-> 5],
     [num |-> 3, den |-> 4], [num |-> 1, den |-> 1], [num |-> 3, den |-> 2]}

(***************************************************************************)
(* Values.                                                                 *)
(***************************************************************************)
None == [kind |-> "None"]

\* AudioSegment.max_possible_amplitude of 8-bit samples
MaxAmplitude == 128

Range(s) == {s[i] : i \in 1..Len(s)}

Min(a, b) == IF a <= b THEN a ELSE b

Max(a, b) == IF a >= b THEN a ELSE b

\* an exception object: its class, the words of its message, and the class
\* of its cause ("None" without one)
Exception(type, msg, cause) ==
    [kind |-> "raise", type |-> type, msg |-> msg, cause |-> cause]

ValueError(msg) == Exception("ValueError", msg, "None")

AudioSegmentationError(prefix, e) ==
    Exception("AudioSegmentationError", prefix \o e.msg, e.type)

Return(segments) == [kind |-> "return", segments |-> segments]

\* validation without the check of min_segment_length
validate_config_no_min_check(config) ==
    IF config.min_silence_len <= 0
    THEN ValueError(<<"min_silence_len", "must", "be", "positive">>)
    ELSE IF config.segment_duration <= 0
    THEN ValueError(<<"segment_duration", "must", "be", "positive">>)
    ELSE IF config.max_segment_length <= config.min_segment_length
    THEN ValueError(<<"max_segment_length", "must", "be", "greater", "than",
                      "min_segment_length">>)
    ELSE IF config.overlap < 0
    THEN ValueError(<<"overlap", "must", "be", "non-negative">>)
    ELSE IF config.overlap >= config.segment_duration
    THEN ValueError(<<"overlap", "must", "be", "less", "than",
                      "segment_duration">>)
    ELSE None

\* validation without the check of overlap against segment_duration
validate_config_no_overlap_check(config) ==
    IF config.min_silence_len <= 0
    THEN ValueError(<<"min_silence_len", "must", "be", "positive">>)
    ELSE IF config.segment_duration <= 0
    THEN ValueError(<<"segment_duration", "must", "be", "positive">>)
    ELSE IF config.min_segment_length <= 0
    THEN ValueError(<<"min_segment_length", "must", "be", "positive">>)
    ELSE IF config.max_segment_length <= config.min_segment_length
    THEN ValueError(<<"max_segment_length", "must", "be", "greater", "than",
                      "min_segment_length">>)
    ELSE IF config.overlap < 0
    THEN ValueError(<<"overlap", "must", "be", "non-negative">>)
    ELSE None

\* validation that checks segment_duration before min_silence_len
validate_config_reordered(config) ==
    IF config.segment_duration <= 0
    THEN ValueError(<<"segment_duration", "must", "be", "positive">>)
    ELSE IF config.min_silence_len <= 0
    THEN ValueError(<<"min_silence_len", "must", "be", "positive">>)
    ELSE IF config.min_segment_length <= 0
    THEN ValueError(<<"min_segment_length", "must", "be", "positive">>)
    ELSE IF config.max_segment_length <= config.min_segment_length
    THEN ValueError(<<"max_segment_length", "must", "be", "greater", "than",
                      "min_segment_length">>)
    ELSE IF config.overlap < 0
    THEN ValueError(<<"overlap", "must", "be", "non-negative">>)
    ELSE IF config.overlap >= config.segment_duration
    THEN ValueError(<<"overlap", "must", "be", "less", "than",
                      "segment_duration">>)
    ELSE None

(***************************************************************************)
(* SegmentationConfig validation.                                          *)
(***************************************************************************)
validate_config(config) ==
    IF config.min_silence_len <= 0
    THEN ValueError(<<"min_silence_len", "must", "be", "positive">>)
    ELSE IF config.segment_duration <= 0
    THEN ValueError(<<"segment_duration", "must", "be", "positive">>)
    ELSE IF config.min_segment_length <= 0
    THEN ValueError(<<"min_segment_length", "must", "be", "positive">>)
    ELSE IF config.max_segment_length <= config.min_segment_length
    THEN ValueError(<<"max_segment_length", "must", "be", "greater", "than",
                      "min_segment_length">>)
    ELSE IF config.overlap < 0
    THEN ValueError(<<"overlap", "must", "be", "non-negative">>)
    ELSE IF config.overlap >= config.segment_duration
    THEN ValueError(<<"overlap", "must", "be", "less", "than",
                      "segment_duration">>)
    ELSE None

(***************************************************************************)
(* pydub.AudioSegment as the segmenter uses it.  A segment of buffer buf   *)
(* is [start, end): len(), slicing by milliseconds and rms.                *)
(***************************************************************************)
Segment(start, end) == [start |-> start, end |-> end]

SegLen(seg) == seg.end - seg.start

\* len(buf) of a whole buffer, and the segment that is the whole buffer
Duration(buf) == Len(buf) * GrainMs

Whole(buf) == Segment(0, Duration(buf))

\* AudioSegment._parse_position: a negative position counts from the end
parse_position(val, length) == IF val < 0 THEN length - (0 - val) ELSE val

\* index of a Python slice over data of the given length
PyIndex(val, length) ==
    IF val < 0 THEN Max(val + length, 0) ELSE Min(val, length)

\* AudioSegment.__getitem__(slice(i, j)), audio_segment[i:j]
Slice(seg, i, j) ==
    LET length == SegLen(seg)
        start == Min(i, length)
        end == Min(j, length)
        s == PyIndex(parse_position(start, length), length)
        e == PyIndex(parse_position(end, length), length)
    IN  Segment(seg.start + s, seg.start + Max(s, e))

\* audio_segment[i:], the stop defaults to len(audio_segment)
SliceFrom(seg, i) == Slice(seg, i, SegLen(seg))

\* sum of the squared samples of buf over the milliseconds [a, b), grain by
\* grain from grain g on
RECURSIVE SumSquares(_, _, _, _)
SumSquares(buf, g, a, b) ==
    IF g > Len(buf) \/ (g - 1) * GrainMs >= b THEN 0
    ELSE LET lo == Max(a, (g - 1) * GrainMs)
             hi == Min(b, g * GrainMs)
         IN  (IF hi > lo THEN (hi - lo) * buf[g] * buf[g] ELSE 0)
             + SumSquares(buf, g + 1, a, b)

\* integer square root, as audioop.rms truncates
RECURSIVE ISqrtIn(_, _, _)
ISqrtIn(x, lo, hi) ==
    IF lo = hi THEN lo
    ELSE LET mid == (lo + hi + 1) \div 2
         IN  IF mid * mid <= x THEN ISqrtIn(x, mid, hi)
             ELSE ISqrtIn(x, lo, mid - 1)

ISqrt(x) == ISqrtIn(x, 0, MaxAmplitude)

\* AudioSegment.rms: audioop.rms of the samples; 0 for no samples
Rms(buf, seg) ==
    IF SegLen(seg) = 0 THEN 0
    ELSE ISqrt(SumSquares(buf, seg.start \div GrainMs + 1, seg.start, seg.end)
               \div SegLen(seg))

\* the step without the overlap
fixed_step_no_overlap(config) == config.segment_duration

(***************************************************************************)
(* AudioSegmenter.split_into_fixed_length_segments                         *)
(***************************************************************************)
\* step size considering overlap
fixed_step(config) == config.segment_duration - config.overlap

\* a remainder of exactly min_segment_length is dropped
remainder_kept_strict(config, remaining_duration) ==
    remaining_duration > config.min_segment_length

\* is there enough audio left for a last segment
remainder_kept(config, remaining_duration) ==
    remaining_duration >= config.min_segment_length

\* the last segment is always the last segment_duration ms of the audio
last_segment_anchored(config, audio_segment, start, remaining_duration) ==
    SliceFrom(audio_segment, 0 - config.segment_duration)

\* the last segment
last_segment(config, audio_segment, start, remaining_duration) ==
    IF remaining_duration >= config.segment_duration
    THEN SliceFrom(audio_segment, 0 - config.segment_duration)
    ELSE SliceFrom(audio_segment, start)

\* the while loop and the handling of the last segment
RECURSIVE fixed_windows(_, _, _, _)
fixed_windows(config, audio_segment, start, segments) ==
    LET total_duration == SegLen(audio_segment)
        segment_duration == config.segment_duration
        step == fixed_step(config)
    IN  IF start + segment_duration <= total_duration
        THEN LET segment == Slice(audio_segment, start, start + segment_duration)
             IN  fixed_windows(config, audio_segment, start + step,
                     IF SegLen(segment) >= config.min_segment_length
                     THEN Append(segments, segment) ELSE segments)
        ELSE LET remaining_duration == total_duration - start
             IN  IF remainder_kept(config, remaining_duration)
                 THEN Append(segments,
                          last_segment(config, audio_segment, start,
                                       remaining_duration))
                 ELSE segments

split_into_fixed_length_segments(config, audio_segment) ==
    IF SegLen(audio_segment) <= config.segment_duration
    THEN Return(<<audio_segment>>)
    ELSE Return(fixed_windows(config, audio_segment, 0, <<>>))

(***************************************************************************)
(* AudioSegmenter.segment_by_energy.  The threshold is the rational        *)
(* num/den; an energy is rms / max, compared exactly.                      *)
(***************************************************************************)
window_size == 100

\* rms_values: one rms per window of window_size ms, range(0, len, 100)
rms_values(buf, audio_segment) ==
    LET n == (SegLen(audio_segment) + window_size - 1) \div window_size
    IN  [i \in 1..n |->
            Rms(buf, Slice(audio_segment, (i - 1) * window_size,
                           (i - 1) * window_size + window_size))]

SeqMax(s) == CHOOSE m \in Range(s) : \A x \in Range(s) : x <= m

\* energy >= energy_threshold
Above_or_equal(rms, max, thr) ==
    IF max > 0 THEN rms * thr.den >= thr.num * max
    ELSE rms * thr.den >= thr.num

\* energy > energy_threshold, after the normalisation by the maximum
Above(rms, max, thr) ==
    IF max > 0 THEN rms * thr.den > thr.num * max
    ELSE rms * thr.den > thr.num

\* a run of active windows that an inactive window ends is kept if long enough
run_kept(config, start, end) == end - start >= config.min_segment_length

\* the run that reaches the end of the buffer is kept whatever its length
last_run_kept_always(config, start, end) == TRUE

\* the run that reaches the end of the buffer is kept if long enough
last_run_kept(config, start, end) == end - start >= config.min_segment_length

\* the loop over enumerate(rms_values) and the handling of the last segment
RECURSIVE energy_loop(_, _, _, _, _, _, _)
energy_loop(config, audio_segment, rms, thr, i, st, segments) ==
    IF i > Len(rms)
    THEN IF st.in_segment
         THEN LET end == SegLen(audio_segment)
              IN  IF last_run_kept(config, st.start, end)
                  THEN Append(segments, Slice(audio_segment, st.start, end))
                  ELSE segments
         ELSE segments
    ELSE LET active == Above(rms[i], SeqMax(rms), thr)
         IN  IF active /\ ~st.in_segment
             THEN energy_loop(config, audio_segment, rms, thr, i + 1,
                      [start |-> (i - 1) * window_size, in_segment |-> TRUE],
                      segments)
             ELSE IF ~active /\ st.in_segment
             THEN LET end == (i - 1) * window_size
                  IN  energy_loop(config, audio_segment, rms, thr, i + 1,
                          [start |-> st.start, in_segment |-> FALSE],
                          IF run_kept(config, st.start, end)
                          THEN Append(segments,
                                      Slice(audio_segment, st.start, end))
                          ELSE segments)
             ELSE energy_loop(config, audio_segment, rms, thr, i + 1, st,
                              segments)

EnergyPrefix == <<"Error", "segmenting", "audio", "by", "energy:">>

\* the bounds 0 and 1 themselves are refused
energy_threshold_in_range_strict(thr) == 0 < thr.num /\ thr.num < thr.den

\* 0 <= energy_threshold <= 1
energy_threshold_in_range(thr) == 0 <= thr.num /\ thr.num <= thr.den

segment_by_energy(config, buf, audio_segment, thr) ==
    IF ~energy_threshold_in_range(thr)
    THEN AudioSegmentationError(EnergyPrefix,
             ValueError(<<"energy_threshold", "must", "be", "between", "0",
                          "and", "1">>))
    ELSE LET rms == rms_values(buf, audio_segment)
         IN  IF Len(rms) = 0
             THEN \* numpy: max() of an empty array raises ValueError
                  AudioSegmentationError(EnergyPrefix,
                      ValueError(<<"zero-size", "array", "to", "reduction",
                                   "operation", "maximum", "which", "has",
                                   "no", "identity">>))
             ELSE Return(energy_loop(config, audio_segment, rms, thr, 1,
                             [start |-> 0, in_segment |-> FALSE], <<>>))

\* default of the energy_threshold parameter, 0.2
DefaultThreshold == [num |-> 1, den |-> 5]

(***************************************************************************)
(* pydub.silence, with its default seek_step of 1 ms.                      *)
(***************************************************************************)
\* floor(db_to_float(silence_thresh) * max_possible_amplitude): an integer
\* rms is <= the float threshold exactly when it is <= its floor
silence_thresh_amplitude(db) ==
    CASE db = -16 -> 20    \* 10^(-16/20) * 128 = 20.28...
      [] db = -20 -> 12    \* 10^(-20/20) * 128 = 12.8

\* the slice starts i whose slice [i, i + min_silence_len) is silent
silence_starts(buf, seg, min_silence_len, silence_thresh) ==
    {i \in 0..(SegLen(seg) - min_silence_len) :
        Rms(buf, Slice(seg, i, i + min_silence_len))
            <= silence_thresh_amplitude(silence_thresh)}

\* the set as an ascending sequence
RECURSIVE Ascending(_)
Ascending(S) ==
    IF S = {} THEN <<>>
    ELSE LET m == CHOOSE x \in S : \A y \in S : x <= y
         IN  <<m>> \o Ascending(S \ {m})

\* combine the silent slice starts into ranges (start ms, end ms).  The
\* loop closes a range at prev_i and opens one at i when i is not prev_i + 1
\* and i > prev_i + min_silence_len: with min_silence_len >= 1, exactly when
\* no slice start lies in [i - min_silence_len, i - 1].
combine_silence(starts, min_silence_len) ==
    LET firsts == Ascending({i \in starts :
                     \A k \in 1..min_silence_len : (i - k) \notin starts})
        lasts == Ascending({i \in starts :
                     \A k \in 1..min_silence_len : (i + k) \notin starts})
    IN  [r \in 1..Len(firsts) |-> <<firsts[r], lasts[r] + min_silence_len>>]

detect_silence(buf, seg, min_silence_len, silence_thresh) ==
    IF SegLen(seg) < min_silence_len THEN <<>>
    ELSE LET starts == silence_starts(buf, seg, min_silence_len,
                                      silence_thresh)
         IN  IF starts = {} THEN <<>>
             ELSE combine_silence(starts, min_silence_len)

\* the ranges between the silent ranges
RECURSIVE between_silence(_, _, _, _)
between_silence(silent_ranges, k, prev_end_i, nonsilent_ranges) ==
    IF k > Len(silent_ranges) THEN nonsilent_ranges
    ELSE between_silence(silent_ranges, k + 1, silent_ranges[k][2],
             Append(nonsilent_ranges, <<prev_end_i, silent_ranges[k][1]>>))

detect_nonsilent(buf, seg, min_silence_len, silence_thresh) ==
    LET silent_ranges == detect_silence(buf, seg, min_silence_len,
                                        silence_thresh)
        len_seg == SegLen(seg)
    IN  IF silent_ranges = <<>> THEN <<(<<0, len_seg>>)>>
        ELSE IF silent_ranges[1][1] = 0 /\ silent_ranges[1][2] = len_seg
        THEN <<>>
        ELSE LET end_i == silent_ranges[Len(silent_ranges)][2]
                 r1 == between_silence(silent_ranges, 1, 0, <<>>)
                 r2 == IF end_i # len_seg
                       THEN Append(r1, <<end_i, len_seg>>) ELSE r1
             IN  IF r2[1] = <<0, 0>> THEN Tail(r2) ELSE r2

\* pairwise(output_ranges): where the padded ranges of two neighbours
\* overlap, both are cut at the middle
RECURSIVE cut_overlaps(_, _)
cut_overlaps(output_ranges, k) ==
    IF k >= Len(output_ranges) THEN output_ranges
    ELSE LET last_end == output_ranges[k][2]
             next_start == output_ranges[k + 1][1]
             mid == (last_end + next_start) \div 2
         IN  IF next_start < last_end
             THEN cut_overlaps(
                      [output_ranges EXCEPT ![k] = <<@[1], mid>>,
                                            ![k + 1] = <<mid, @[2]>>], k + 1)
             ELSE cut_overlaps(output_ranges, k + 1)

\* pydub's split_on_silence, from the ranges that its own detect_nonsilent
\* call returns: the call has the arguments of the caller's, so the ranges
\* are the caller's nonsilent_ranges
pydub_split_on_silence(seg, nonsilent, keep) ==
    LET padded == [k \in 1..Len(nonsilent) |->
                      <<nonsilent[k][1] - keep, nonsilent[k][2] + keep>>]
        output_ranges == cut_overlaps(padded, 1)
    IN  [k \in 1..Len(output_ranges) |->
            Slice(seg, Max(output_ranges[k][1], 0),
                  Min(output_ranges[k][2], SegLen(seg)))]

\* a chunk of exactly min_segment_length is skipped too
too_short_inclusive(config, segment) ==
    SegLen(segment) <= config.min_segment_length

(***************************************************************************)
(* AudioSegmenter.split_on_silence                                         *)
(***************************************************************************)
\* a chunk that is too short is skipped
too_short(config, segment) == SegLen(segment) < config.min_segment_length

\* no chunk is taken as too long
too_long_never(config, segment) == FALSE

\* a chunk that is too long is split
too_long(config, segment) == SegLen(segment) > config.max_segment_length

\* post-process the chunks: skip the short, split the long
RECURSIVE post_process(_, _, _, _)
post_process(config, segments, k, processed_segments) ==
    IF k > Len(segments) THEN processed_segments
    ELSE LET segment == segments[k]
         IN  IF too_short(config, segment)
             THEN post_process(config, segments, k + 1, processed_segments)
             ELSE IF too_long(config, segment)
             THEN post_process(config, segments, k + 1,
                      processed_segments \o
                      split_into_fixed_length_segments(config,
                                                       segment).segments)
             ELSE post_process(config, segments, k + 1,
                               Append(processed_segments, segment))

\* without the early return: the chunks of no range are post-processed
split_on_silence_no_early_return(config, buf, audio_segment) ==
    LET nonsilent_ranges ==
            detect_nonsilent(buf, audio_segment, config.min_silence_len,
                             config.silence_thresh)
    IN  Return(post_process(config,
            pydub_split_on_silence(audio_segment, nonsilent_ranges,
                config.keep_silence), 1, <<>>))

split_on_silence(config, buf, audio_segment) ==
    LET nonsilent_ranges ==
            detect_nonsilent(buf, audio_segment, config.min_silence_len,
                             config.silence_thresh)
    IN  IF nonsilent_ranges = <<>> THEN Return(<<audio_segment>>)
        ELSE Return(post_process(config,
                 pydub_split_on_silence(audio_segment, nonsilent_ranges,
                     config.keep_silence), 1, <<>>))

(***************************************************************************)
(* AudioSegmenter.segment_audio                                            *)
(***************************************************************************)
\* a method that is not known falls back to the default, "silence"
segment_audio_default_method(config, buf, method) ==
    IF method = "fixed"
    THEN split_into_fixed_length_segments(config, Whole(buf))
    ELSE IF method = "energy"
    THEN segment_by_energy(config, buf, Whole(buf), DefaultThreshold)
    ELSE split_on_silence(config, buf, Whole(buf))

segment_audio(config, buf, method) ==
    IF method = "silence" THEN split_on_silence(config, buf, Whole(buf))
    ELSE IF method = "fixed"
    THEN split_into_fixed_length_segments(config, Whole(buf))
    ELSE IF method = "energy"
    THEN segment_by_energy(config, buf, Whole(buf), DefaultThreshold)
    ELSE ValueError(<<"Invalid", "segmentation", "method:", method>>)

(***************************************************************************)
(* Failures of the library.  A pydub or numpy call may raise an exception  *)
(* the code does not expect (audioop.error on malformed sample data, for   *)
(* one).  Faults names where: "stats", the reads of dBFS, max_dBFS and rms *)
(* in _get_audio_stats, which segment_audio calls before its try block;    *)
(* "strategy", the first library call inside the strategy dispatched to.   *)
(***************************************************************************)
Faults == {"stats", "strategy"}

LibraryError == Exception("audioop.error", <<"not", "a", "whole", "number", "of", "frames">>, "None")

SilencePrefix == <<"Error", "splitting", "audio", "on", "silence:">>

FixedPrefix == <<"Error", "splitting", "audio", "into", "fixed-length", "segments:">>

\* the except clause of each strategy wraps whatever was raised in it
strategy_failing(method, e) ==
    IF method = "silence" THEN AudioSegmentationError(SilencePrefix, e)
    ELSE IF method = "fixed" THEN AudioSegmentationError(FixedPrefix, e)
    ELSE AudioSegmentationError(EnergyPrefix, e)

\* segment_audio when the library call at fault raises
segment_audio_failing(config, buf, method, fault) ==
    IF fault = "stats" THEN LibraryError
    ELSE IF method \in {"silence", "fixed", "energy"}
    THEN strategy_failing(method, LibraryError)
    ELSE segment_audio(config, buf, method)

(***************************************************************************)
(* TextProcessor (src/src/transcription/processor.py).  A text is a        *)
(* sequence of characters; an ASCII character is written as itself, any    *)
(* other by its code point: U+3000 ideographic space, U+3001 and U+3002    *)
(* the ideographic comma and full stop, U+FF61 the half-width ideographic  *)
(* full stop, U+FF01.. the full-width forms of ASCII.                      *)
(***************************************************************************)
\* what str.split(), str.strip() and \s of re take as whitespace
Whitespace == {" ", "\t", "\n", "U+3000"}

IsSpace(c) == c \in Whitespace

\* the characters from position i on
Drop(text, i) == SubSeq(text, i, Len(text))

\* mojimoji's ASCII table: every printable ASCII character, the space
\* included, has a full-width form
ascii_han_to_zen(c) ==
    CASE c = "a" -> "U+FF41"
      [] c = "A" -> "U+FF21"
      [] c = "1" -> "U+FF11"
      [] c = "!" -> "U+FF01"
      [] c = "?" -> "U+FF1F"
      [] c = "." -> "U+FF0E"
      [] c = "(" -> "U+FF08"
      [] c = ")" -> "U+FF09"
      [] c = "'" -> "U+2019"
      [] c = " " -> "U+3000"
      [] OTHER -> c

\* mojimoji.han_to_zen(text, digit=True, ascii=True, kana=False)
han_to_zen(text) == [i \in 1..Len(text) |-> ascii_han_to_zen(text[i])]

\* jaconv's half-width kana table, which holds the half-width ideographic
\* punctuation too
kana_h2z(c) ==
    CASE c = "U+FF61" -> "U+3002"
      [] c = "U+FF64" -> "U+3001"
      [] c = "U+FF76" -> "U+30AB"
      [] OTHER -> c

\* jaconv.h2z(text, kana=True, ascii=False, digit=False)
h2z(text) == [i \in 1..Len(text) |-> kana_h2z(text[i])]

\* self.bracket_map, applied by str.replace key by key; every key is one
\* character
bracket_map(c) ==
    CASE c = "(" -> "U+FF08"
      [] c = ")" -> "U+FF09"
      [] c = "[" -> "U+FF3B"
      [] c = "]" -> "U+FF3D"
      [] c = "{" -> "U+FF5B"
      [] c = "}" -> "U+FF5D"
      [] OTHER -> c

replace_brackets(text) == [i \in 1..Len(text) |-> bracket_map(text[i])]

\* the first position from i on that holds no whitespace
RECURSIVE skip_spaces(_, _)
skip_spaces(text, i) ==
    IF i <= Len(text) /\ IsSpace(text[i]) THEN skip_spaces(text, i + 1)
    ELSE i

\* at most one whitespace character after the mark is removed
strip_one_space_after(mark, text) ==
    LET keep == {i \in 1..Len(text) :
                    ~(i > 1 /\ text[i - 1] = mark /\ IsSpace(text[i]))}
        RECURSIVE Pick(_)
        Pick(i) == IF i > Len(text) THEN <<>>
                   ELSE IF i \in keep THEN <<text[i]>> \o Pick(i + 1)
                   ELSE Pick(i + 1)
    IN  Pick(1)

\* re.compile(mark + r'\s*').sub(mark, text): the whitespace that follows
\* the mark is removed
RECURSIVE strip_space_after(_, _)
strip_space_after(mark, text) ==
    IF text = <<>> THEN <<>>
    ELSE IF text[1] = mark
    THEN <<mark>> \o strip_space_after(mark, Drop(text, skip_spaces(text, 2)))
    ELSE <<text[1]>> \o strip_space_after(mark, Tail(text))

\* text.split(): the maximal runs of characters that are not whitespace
RECURSIVE split(_)
split(text) ==
    LET i == skip_spaces(text, 1)
        RECURSIVE word_end(_)
        word_end(j) == IF j <= Len(text) /\ ~IsSpace(text[j])
                       THEN word_end(j + 1) ELSE j
    IN  IF i > Len(text) THEN <<>>
        ELSE <<SubSeq(text, i, word_end(i) - 1)>>
                 \o split(Drop(text, word_end(i)))

\* sep.join(words)
RECURSIVE join(_, _)
join(sep, words) ==
    IF words = <<>> THEN <<>>
    ELSE IF Len(words) = 1 THEN words[1]
    ELSE words[1] \o sep \o join(sep, Tail(words))

\* every whitespace character becomes a space, runs are not collapsed
normalize_spaces_no_collapse(text) ==
    [i \in 1..Len(text) |-> IF IsSpace(text[i]) THEN " " ELSE text[i]]

\* ' '.join(text.split())
normalize_spaces(text) == join(<<" ">>, split(text))

\* text.replace(' ', ideographic space)
to_full_width_spaces(text) ==
    [i \in 1..Len(text) |-> IF text[i] = " " THEN "U+3000" ELSE text[i]]

\* text.strip()
RECURSIVE rstrip(_)
rstrip(text) ==
    IF text # <<>> /\ IsSpace(text[Len(text)])
    THEN rstrip(SubSeq(text, 1, Len(text) - 1)) ELSE text

strip(text) == rstrip(Drop(text, skip_spaces(text, 1)))

process_japanese_text(text) ==
    LET t1 == han_to_zen(text)
        t2 == h2z(t1)
        t3 == replace_brackets(t2)
        t4 == strip_space_after("U+3002", t3)
        t5 == strip_space_after("U+3001", t4)
        t6 == normalize_spaces(t5)
        t7 == to_full_width_spaces(t6)
    IN  strip(t7)

\* runs of three or more periods only
collapse_periods_three_or_more(text) ==
    LET RECURSIVE run_end(_)
        run_end(j) == IF j <= Len(text) /\ text[j] = "." THEN run_end(j + 1)
                      ELSE j
        RECURSIVE Sub(_)
        Sub(i) == IF i > Len(text) THEN <<>>
                  ELSE IF run_end(i) - i >= 3
                  THEN <<".", ".", ".">> \o Sub(run_end(i))
                  ELSE <<text[i]>> \o Sub(i + 1)
    IN  Sub(1)

\* re.sub(r'\.{2,}', '...', text): a run of two or more periods becomes
\* three periods
collapse_periods(text) ==
    LET RECURSIVE run_end(_)
        run_end(j) == IF j <= Len(text) /\ text[j] = "." THEN run_end(j + 1)
                      ELSE j
        RECURSIVE Sub(_)
        Sub(i) == IF i > Len(text) THEN <<>>
                  ELSE IF run_end(i) - i >= 2
                  THEN <<".", ".", ".">> \o Sub(run_end(i))
                  ELSE <<text[i]>> \o Sub(i + 1)
    IN  Sub(1)

Digits ==
    {"0", "1", "2", "3", "4", "5", "6", "7", "8", "9"}

UpperCase ==
    {"A", "B", "C", "D", "E", "F", "G", "H", "I", "J", "K", "L", "M",
     "N", "O", "P", "Q", "R", "S", "T", "U", "V", "W", "X", "Y", "Z"}

LowerCase ==
    {"a", "b", "c", "d", "e", "f", "g", "h", "i", "j", "k", "l", "m",
     "n", "o", "p", "q", "r", "s", "t", "u", "v", "w", "x", "y", "z"}

\* text.replace(old, new): the occurrences from the left, not overlapping
RECURSIVE replace(_, _, _)
replace(text, old, new) ==
    IF Len(text) < Len(old) THEN text
    ELSE IF SubSeq(text, 1, Len(old)) = old
    THEN new \o replace(Drop(text, Len(old) + 1), old, new)
    ELSE <<text[1]>> \o replace(Tail(text), old, new)

\* the table with the generic suffix patterns ahead of the specific ones
contractions_generic_first ==
    <<<<<<"n", "'", "t">>,
        <<" ", "n", "o", "t">>>>,
      <<<<"'", "r", "e">>,
        <<" ", "a", "r", "e">>>>,
      <<<<"'", "s">>,
        <<" ", "i", "s">>>>,
      <<<<"'", "d">>,
        <<" ", "w", "o", "u", "l", "d">>>>,
      <<<<"'", "l", "l">>,
        <<" ", "w", "i", "l", "l">>>>,
      <<<<"'", "v", "e">>,
        <<" ", "h", "a", "v", "e">>>>,
      <<<<"'", "m">>,
        <<" ", "a", "m">>>>,
      <<<<"w", "o", "n", "'", "t">>,
        <<"w", "i", "l", "l", " ", "n", "o", "t">>>>,
      <<<<"c", "a", "n", "'", "t">>,
        <<"c", "a", "n", "n", "o", "t">>>>>>

\* self.contractions, in the order of the dict
contractions ==
    <<<<<<"w", "o", "n", "'", "t">>,
        <<"w", "i", "l", "l", " ", "n", "o", "t">>>>,
      <<<<"c", "a", "n", "'", "t">>,
        <<"c", "a", "n", "n", "o", "t">>>>,
      <<<<"n", "'", "t">>,
        <<" ", "n", "o", "t">>>>,
      <<<<"'", "r", "e">>,
        <<" ", "a", "r", "e">>>>,
      <<<<"'", "s">>,
        <<" ", "i", "s">>>>,
      <<<<"'", "d">>,
        <<" ", "w", "o", "u", "l", "d">>>>,
      <<<<"'", "l", "l">>,
        <<" ", "w", "i", "l", "l">>>>,
      <<<<"'", "v", "e">>,
        <<" ", "h", "a", "v", "e">>>>,
      <<<<"'", "m">>,
        <<" ", "a", "m">>>>>>

RECURSIVE expand_from(_, _)
expand_from(text, k) ==
    IF k > Len(contractions) THEN text
    ELSE expand_from(replace(text, contractions[k][1], contractions[k][2]),
                     k + 1)

expand_contractions(text) == expand_from(text, 1)

\* a space is inserted before every position i for which Gap(i - 1, i)
RECURSIVE insert_spaces(_, _, _)
insert_spaces(text, gaps, i) ==
    IF i > Len(text) THEN <<>>
    ELSE (IF i \in gaps THEN <<" ", text[i]>> ELSE <<text[i]>>)
             \o insert_spaces(text, gaps, i + 1)

\* re.sub(r'([.!?])([A-Z])', r'\1 \2', text)
space_after_sentence_end(text) ==
    insert_spaces(text,
        {i \in 2..Len(text) :
            text[i - 1] \in {".", "!", "?"} /\ text[i] \in UpperCase}, 1)

\* self.number_with_unit_pattern.sub(r'\1 \2', text), the pattern being
\* (\d+)([a-zA-Z]+)
normalize_numbers(text) ==
    insert_spaces(text,
        {i \in 2..Len(text) :
            text[i - 1] \in Digits /\ text[i] \in UpperCase \cup LowerCase},
        1)

\* the characters that Punkt's period context takes as the start of a
\* following token without whitespace before it
PunktNonWordChars ==
    {")", "\"", ";", "}", "]", "*", ":", "@", "'", "(", "{", "[", "!"}

\* the places where the sentence tokenizer may end a sentence: after a
\* period, exclamation or question mark that is followed by whitespace and
\* a further token, or directly by one of the non-word characters
sentence_ends(text) ==
    {i \in 1..(Len(text) - 1) :
        /\ text[i] \in {".", "!", "?"}
        /\ \/ /\ IsSpace(text[i + 1])
              /\ skip_spaces(text, i + 1) <= Len(text)
           \/ text[i + 1] \in PunktNonWordChars}

\* PunktSentenceTokenizer.tokenize(text) when it ends sentences at cuts: a
\* sentence runs to its end mark, the next one starts at the next token,
\* the last one ends where text.rstrip() ends
RECURSIVE tokenize(_, _, _)
tokenize(text, cuts, last_break) ==
    IF \E i \in cuts : i >= last_break
    THEN LET i == CHOOSE c \in cuts :
                      c >= last_break /\ \A d \in cuts : d >= last_break => c <= d
         IN  <<SubSeq(text, last_break, i)>>
                 \o tokenize(text, cuts, skip_spaces(text, i + 1))
    ELSE <<SubSeq(text, last_break, Len(rstrip(text)))>>

\* the loop body without the substitution of the runs of periods
process_sentence_periods_kept(sentence) ==
    normalize_numbers(normalize_spaces(sentence))

\* the body of the loop over the sentences
process_sentence(sentence) ==
    collapse_periods(normalize_numbers(normalize_spaces(sentence)))

process_english_text(text, cuts) ==
    LET t1 == expand_contractions(text)
        t2 == space_after_sentence_end(t1)
        sentences == tokenize(t2, cuts, 1)
        processed_sentences ==
            [k \in 1..Len(sentences) |-> process_sentence(sentences[k])]
    IN  strip(join(<<" ">>, processed_sentences))

\* the pipeline of a language code that is neither "ja" nor "en"
process_other_text(text) == strip(collapse_periods(normalize_spaces(text)))

\* the text that a call returns
ReturnText(text) == [kind |-> "return", text |-> text]

\* the dispatch without the test for an empty text
pipeline_of_nonempty(text, language_code) ==
    IF language_code = "ja" THEN "process_japanese_text"
    ELSE IF language_code = "en" THEN "process_english_text"
    ELSE "other"

\* the branch of process_text that a call takes: the early return of an
\* empty text, or the pipeline of the language code
pipeline_of(text, language_code) ==
    IF text = <<>> THEN "none"
    ELSE IF language_code = "ja" THEN "process_japanese_text"
    ELSE IF language_code = "en" THEN "process_english_text"
    ELSE "other"

\* TextProcessor.process_text; cuts are the sentence ends the tokenizer
\* chooses in the English pipeline
process_text(text, language_code, cuts) ==
    LET pipeline == pipeline_of(text, language_code)
    IN  IF pipeline = "none" THEN text
        ELSE IF pipeline = "process_japanese_text"
        THEN process_japanese_text(text)
        ELSE IF pipeline = "process_english_text"
        THEN process_english_text(text, cuts)
        ELSE process_other_text(text)

(***************************************************************************)
(* AudioSegmenter(config): the constructor stores the config and validates *)
(* it; when validation raises no instance results.                         *)
(***************************************************************************)
Construct ==
    /\ given = None
    /\ \E config \in Configs :
           /\ given' = config
           /\ LET e == validate_config(config)
              IN  IF e = None
                  THEN /\ segmenter' = [kind |-> "AudioSegmenter",
                                        config |-> config]
                       /\ ctorError' = None
                  ELSE /\ segmenter' = None
                       /\ ctorError' = e
    /\ UNCHANGED <<call, result, audio, first, tasks, services>>

(***************************************************************************)
(* Calls on a constructed segmenter: segment_audio, which dispatches to    *)
(* the three strategies, and segment_by_energy with a threshold of the     *)
(* caller.  A behaviour follows one call to its outcome.                   *)
(***************************************************************************)
SegmentAudio ==
    /\ segmenter # None
    /\ call = None
    /\ \E buf \in Buffers, method \in Methods :
           /\ call' = [op |-> "segment_audio", buffer |-> buf,
                       method |-> method]
           /\ result' = segment_audio(segmenter.config, buf, method)
    /\ UNCHANGED <<given, segmenter, ctorError, audio, first, tasks, services>>

SegmentByEnergy ==
    /\ segmenter # None
    /\ call = None
    /\ \E buf \in Buffers, thr \in Thresholds :
           /\ call' = [op |-> "segment_by_energy", buffer |-> buf,
                       energy_threshold |-> thr]
           /\ result' = segment_by_energy(segmenter.config, buf, Whole(buf),
                                          thr)
    /\ UNCHANGED <<given, segmenter, ctorError, audio, first, tasks, services>>

Init ==
    /\ given = None
    /\ segmenter = None
    /\ ctorError = None
    /\ call = None
    /\ result = None
    /\ audio = None
    /\ first = None
    /\ tasks = None
    /\ resources = None
    /\ processor = None
    /\ handler = None
    /\ detection = None
    /\ loop = None

Next ==
    \/ Construct
    \/ SegmentAudio
    \/ SegmentByEnergy

Spec == Init /\ [][Next]_vars

(***************************************************************************)
(* segment_audio calls during which a library call raises.                 *)
(***************************************************************************)
SegmentAudioFailing ==
    /\ segmenter # None
    /\ call = None
    /\ \E buf \in Buffers, method \in Methods, fault \in Faults :
           /\ call' = [op |-> "segment_audio", buffer |-> buf,
                       method |-> method, fault |-> fault]
           /\ result' = segment_audio_failing(segmenter.config, buf, method,
                                              fault)
    /\ UNCHANGED <<given, segmenter, ctorError, audio, first, tasks, services>>

NextFaults ==
    \/ Construct
    \/ SegmentAudioFailing

SpecFaults == Init /\ [][NextFaults]_vars

(***************************************************************************)
(* A caller that holds one buffer and one segmenter and calls              *)
(* segment_audio on them any number of times.  No statement of the         *)
(* segmenter assigns to self.config or to the AudioSegment it is given     *)
(* (slicing and the pydub functions build new objects), so a call leaves   *)
(* both as they are.  first remembers the first call once a second is      *)
(* made.                                                                   *)
(***************************************************************************)
HeldConfigs ==
    {c \in Configs : /\ validate_config(c) = None
                     /\ c.keep_silence = 30
                     /\ c.min_segment_length = 75
                     /\ c.overlap = 40}

HeldBuffers == UNION {[1..n -> Levels] : n \in 0..(MaxGrains - 1)}

AudioObject(buf) == [kind |-> "AudioSegment", samples |-> buf]

InitHeld ==
    /\ \E config \in HeldConfigs :
           /\ given = config
           /\ segmenter = [kind |-> "AudioSegmenter", config |-> config]
    /\ ctorError = None
    /\ call = None
    /\ result = None
    /\ \E buf \in HeldBuffers : audio = AudioObject(buf)
    /\ first = None
    /\ tasks = None
    /\ resources = None
    /\ processor = None
    /\ handler = None
    /\ detection = None
    /\ loop = None

\* the fixed-length split takes its first window out of the buffer it is
\* given
SegmentAudioHeld_consuming ==
    /\ audio # None
    /\ \E method \in Methods :
           /\ call' = [op |-> "segment_audio", buffer |-> audio.samples,
                       method |-> method]
           /\ result' = segment_audio(segmenter.config, audio.samples, method)
           /\ audio' = IF method = "fixed" /\ audio.samples # <<>>
                       THEN AudioObject(Tail(audio.samples)) ELSE audio
    /\ first' = IF call # None /\ first = None
                THEN [call |-> call, result |-> result] ELSE first
    /\ UNCHANGED <<given, segmenter, ctorError, tasks, services>>

SegmentAudioHeld ==
    /\ audio # None
    /\ \E method \in Methods :
           /\ call' = [op |-> "segment_audio", buffer |-> audio.samples,
                       method |-> method]
           /\ result' = segment_audio(segmenter.config, audio.samples, method)
    /\ first' = IF call # None /\ first = None
                THEN [call |-> call, result |-> result] ELSE first
    /\ UNCHANGED <<given, segmenter, ctorError, audio, tasks, services>>

SpecHeld == InitHeld /\ [][SegmentAudioHeld]_vars

(***************************************************************************)
(* Worker threads that call segment_audio and process_text at the same     *)
(* time on one AudioSegmenter and one TextProcessor.  A call is entered    *)
(* (segment_audio: the statistics and the log line; process_text: the      *)
(* test for an empty text) and later finished (the dispatch and the        *)
(* pipeline); the steps of different workers interleave.  The segmenter's  *)
(* only attribute is config, read by the strategies when they run; the     *)
(* processor's attributes are the compiled patterns and the tables, which  *)
(* no method assigns.                                                      *)
(***************************************************************************)
Workers == {"w1", "w2"}

WorkerBuffers == {<<>>, <<100, 0>>, <<100, 0, 100>>}

WorkerTexts == {<<>>, <<"a", " ", "U+3002", " ">>, <<" ", "a", ".", ".">>}

IdleTask ==
    [pc |-> "idle", op |-> "none", input |-> <<>>, param |-> "none",
     result |-> None, during |-> "none"]

InitWorkers ==
    /\ \E config \in HeldConfigs :
           /\ given = config
           /\ segmenter = [kind |-> "AudioSegmenter", config |-> config]
    /\ ctorError = None
    /\ call = None
    /\ result = None
    /\ audio = None
    /\ first = None
    /\ tasks = [w \in Workers |-> IdleTask]
    /\ resources = None
    /\ processor = None
    /\ handler = None
    /\ detection = None
    /\ loop = None

\* a worker calls segment_audio(buffer, method) or
\* process_text(text, language_code)
WorkerCall(w) ==
    /\ tasks[w].pc = "idle"
    /\ \/ \E buf \in WorkerBuffers, method \in Methods :
              tasks' = [tasks EXCEPT ![w] =
                          [@ EXCEPT !.pc = "called", !.op = "segment_audio",
                                    !.input = buf, !.param = method]]
       \/ \E text \in WorkerTexts, language_code \in LanguageCodes :
              tasks' = [tasks EXCEPT ![w] =
                          [@ EXCEPT !.pc = "called", !.op = "process_text",
                                    !.input = text, !.param = language_code]]
    /\ UNCHANGED <<given, segmenter, ctorError, call, result, audio, first,
                 services>>

\* the silence method switches the overlap off on the shared config for the
\* splits it makes
entered_overlap_off(instance, task) ==
    IF task.op = "segment_audio" /\ task.param = "silence"
    THEN [instance EXCEPT !.config.overlap = 0]
    ELSE instance

\* the segmenter after a call was entered: no attribute is assigned
entered(instance, task) == instance

WorkerEnter(w) ==
    /\ tasks[w].pc = "called"
    /\ tasks' = [tasks EXCEPT ![w].pc = "running"]
    /\ segmenter' = entered(segmenter, tasks[w])
    /\ UNCHANGED <<given, ctorError, call, result, audio, first, services>>

\* the pipeline runs; the strategies read self.config as it is now
WorkerFinish(w) ==
    /\ tasks[w].pc = "running"
    /\ LET task == tasks[w]
           outcome ==
               IF task.op = "segment_audio"
               THEN segment_audio(segmenter.config, task.input, task.param)
               ELSE ReturnText(process_text(task.input, task.param, {}))
           others == {tasks[v].pc : v \in Workers \ {w}}
       IN  tasks' = [tasks EXCEPT ![w] =
                        [@ EXCEPT !.pc = "done", !.result = outcome,
                                  !.during = IF "running" \in others
                                             THEN "running" ELSE "alone"]]
    /\ UNCHANGED <<given, segmenter, ctorError, call, result, audio, first,
                 services>>

NextWorkers ==
    \E w \in Workers : WorkerCall(w) \/ WorkerEnter(w) \/ WorkerFinish(w)

SpecWorkers == InitWorkers /\ [][NextWorkers]_vars

(***************************************************************************)
(* TextProcessor.process_text(text, language_code).  In the English        *)
(* pipeline the sentence tokenizer chooses the sentence ends.              *)
(***************************************************************************)
ProcessText ==
    /\ call = None
    /\ \E text \in Texts, language_code \in LanguageCodes :
           \E cuts \in IF language_code = "en"
                       THEN SUBSET sentence_ends(
                                space_after_sentence_end(
                                    expand_contractions(text)))
                       ELSE {{}} :
               /\ call' = [op |-> "process_text", text |-> text,
                           language_code |-> language_code, cuts |-> cuts,
                           pipeline |-> pipeline_of(text, language_code)]
               /\ result' = ReturnText(process_text(text, language_code,
                                                    cuts))
    /\ UNCHANGED <<given, segmenter, ctorError, audio, first, tasks, services>>

SpecText == Init /\ [][ProcessText]_vars

(***************************************************************************)
(* The steps of the English pipeline called on their own.  The texts given *)
(* to expand_contractions are made of up to MaxPieces pieces: the patterns *)
(* of the table and the fragments that lie around them.                    *)
(***************************************************************************)
Pieces ==
    {contractions[k][1] : k \in 1..Len(contractions)}
        \cup {<<"c", "a">>, <<"w", "o">>, <<"n">>, <<"'">>, <<"t">>, <<" ">>}

ContractionTexts ==
    {join(<<>>, pieces) :
        pieces \in UNION {[1..n -> Pieces] : n \in 0..MaxPieces}}

ExpandContractions ==
    /\ call = None
    /\ \E text \in ContractionTexts :
           /\ call' = [op |-> "expand_contractions", text |-> text]
           /\ result' = ReturnText(expand_contractions(text))
    /\ UNCHANGED <<given, segmenter, ctorError, audio, first, tasks, services>>

\* the characters of the texts given to process_english_text
EnglishChars == {"a", "A", "1", ".", "!", " "}

EnglishTexts == UNION {[1..n -> EnglishChars] : n \in 0..MaxEnglishLen}

\* process_english_text(text); the sentence tokenizer chooses the
\* sentence ends
ProcessEnglishText ==
    /\ call = None
    /\ \E text \in EnglishTexts :
           \E cuts \in SUBSET sentence_ends(
                            space_after_sentence_end(
                                expand_contractions(text))) :
               /\ call' = [op |-> "process_english_text", text |-> text,
                           cuts |-> cuts]
               /\ result' = ReturnText(process_english_text(text, cuts))
    /\ UNCHANGED <<given, segmenter, ctorError, audio, first, tasks, services>>

NextEnglish ==
    \/ ExpandContractions
    \/ ProcessEnglishText

SpecEnglish == Init /\ [][NextEnglish]_vars

(***************************************************************************)
(* The construction of a TextProcessor on a machine where the nltk package *)
(* is installed or not and where the punkt resource is at hand (on disk or *)
(* by download) or not, and the English pipeline of the instance.          *)
(***************************************************************************)
Machines == [nltk : BOOLEAN, punkt : BOOLEAN]

ImportError(msg) == Exception("ImportError", msg, "None")

\* line 4, run when the module is imported: from nltk.tokenize import
\* PunktSentenceTokenizer
import_module(machine) ==
    IF machine.nltk THEN None
    ELSE ImportError(<<"No module named 'nltk'">>)

\* nltk.download('punkt', quiet=True): the downloader reports a failure
\* by the value it returns and raises nothing
nltk_download(machine) == machine.punkt

\* TextProcessor.__init__: the value of nltk.download is dropped, and
\* PunktSentenceTokenizer() builds a tokenizer with default parameters
\* that reads no resource
TextProcessor(machine) ==
    LET downloaded == nltk_download(machine)
    IN  IF ~machine.nltk
        THEN ImportError(<<"NLTK is required. Please install it with",
                           "'pip install nltk'">>)
        ELSE [kind |-> "TextProcessor",
              sentence_tokenizer |-> "PunktSentenceTokenizer()"]

InitProcessor ==
    /\ resources \in Machines
    /\ processor = None
    /\ given = None
    /\ segmenter = None
    /\ ctorError = None
    /\ call = None
    /\ result = None
    /\ audio = None
    /\ first = None
    /\ tasks = None
    /\ handler = None
    /\ detection = None
    /\ loop = None

ConstructProcessor ==
    /\ processor = None
    /\ processor' = IF import_module(resources) # None
                    THEN import_module(resources)
                    ELSE TextProcessor(resources)
    /\ UNCHANGED <<given, segmenter, ctorError, call, result, audio, first,
                   tasks, resources, handler, detection, loop>>

\* the texts given to the English pipeline of a constructed processor
ProcessorTexts == {text \in EnglishTexts : Len(text) <= 3}

NormalizeEnglish ==
    /\ processor # None
    /\ processor.kind = "TextProcessor"
    /\ call = None
    /\ \E text \in ProcessorTexts :
           \E cuts \in SUBSET sentence_ends(
                            space_after_sentence_end(
                                expand_contractions(text))) :
               /\ call' = [op |-> "process_english_text", text |-> text,
                           cuts |-> cuts]
               /\ result' = ReturnText(process_english_text(text, cuts))
    /\ UNCHANGED <<given, segmenter, ctorError, audio, first, tasks,
                   services>>

NextProcessor ==
    \/ ConstructProcessor
    \/ NormalizeEnglish

SpecProcessor == InitProcessor /\ [][NextProcessor]_vars

(***************************************************************************)
(* The window loop of split_into_fixed_length_segments, one iteration at a *)
(* time.  Only the length of the audio matters to the loop.                *)
(***************************************************************************)
ValidConfigs == {config \in Configs : validate_config(config) = None}

Audios == {Segment(0, n * GrainMs) : n \in 0..MaxGrains}

\* the call up to the loop: the early return, or start = 0 and no segment
EnterFixedLoop ==
    /\ loop = None
    /\ \E config \in ValidConfigs, audio_segment \in Audios :
           loop' = [config |-> config,
                    audio_segment |-> audio_segment,
                    start |-> 0,
                    iterations |-> 0,
                    segments |-> IF SegLen(audio_segment)
                                       <= config.segment_duration
                                 THEN <<audio_segment>> ELSE <<>>,
                    pc |-> IF SegLen(audio_segment)
                                 <= config.segment_duration
                           THEN "done" ELSE "while"]
    /\ UNCHANGED <<given, segmenter, ctorError, call, result, audio, first,
                   tasks, resources, processor, handler, detection>>

\* the loop condition
window_fits(l) ==
    l.start + l.config.segment_duration <= SegLen(l.audio_segment)

\* one iteration of the while loop
FixedLoopStep ==
    /\ loop # None
    /\ loop.pc = "while"
    /\ window_fits(loop)
    /\ LET segment == Slice(loop.audio_segment, loop.start,
                            loop.start + loop.config.segment_duration)
       IN  loop' = [loop EXCEPT
                       !.segments =
                           IF SegLen(segment)
                                  >= loop.config.min_segment_length
                           THEN Append(@, segment) ELSE @,
                       !.start = @ + fixed_step(loop.config),
                       !.iterations = @ + 1]
    /\ UNCHANGED <<given, segmenter, ctorError, call, result, audio, first,
                   tasks, resources, processor, handler, detection>>

\* the loop condition fails: the last segment is handled and the call
\* returns
FixedLoopExit ==
    /\ loop # None
    /\ loop.pc = "while"
    /\ ~window_fits(loop)
    /\ LET remaining_duration == SegLen(loop.audio_segment) - loop.start
       IN  loop' = [loop EXCEPT
                       !.segments =
                           IF remainder_kept(loop.config, remaining_duration)
                           THEN Append(@, last_segment(loop.config,
                                           loop.audio_segment, loop.start,
                                           remaining_duration))
                           ELSE @,
                       !.pc = "done"]
    /\ UNCHANGED <<given, segmenter, ctorError, call, result, audio, first,
                   tasks, resources, processor, handler, detection>>

NextFixedLoop ==
    \/ EnterFixedLoop
    \/ FixedLoopStep
    \/ FixedLoopExit

\* the call runs on: an iteration or the exit that can be taken is taken
SpecFixedLoop ==
    /\ Init
    /\ [][NextFixedLoop]_vars
    /\ WF_vars(FixedLoopStep)
    /\ WF_vars(FixedLoopExit)

(***************************************************************************)
(* RetryHandler.retry_operation (src/demo/utils/retry_handler.py), one     *)
(* call of the operation at a time.  The operation returns a value or      *)
(* raises an error of one of the classes below; an error carries the       *)
(* number of the call that raised it, and the errors raised so far are     *)
(* kept in raised.                                                         *)
(***************************************************************************)
\* the values that RetryHandler(max_retries=...) is constructed with
MaxRetriesValues == 0..MaxRetriesBound

\* errors.py: NetworkError and RateLimitError derive from RetryableError,
\* RetryableError from DemoError; ValueError stands for any other Exception
ErrorClasses ==
    {"RetryableError", "NetworkError", "RateLimitError", "DemoError",
     "ValueError"}

\* isinstance(error, RetryableError)
IsRetryableError(error) ==
    error.class \in {"RetryableError", "NetworkError", "RateLimitError"}

\* RetryHandler.should_retry
should_retry(error) ==
    IF IsRetryableError(error) THEN TRUE
    ELSE IF error.class \in {"NetworkError", "RateLimitError"} THEN TRUE
    ELSE FALSE

\* what a call of the operation does
Outcomes(n) ==
    {[kind |-> "return", value |-> "value", call |-> n]}
        \cup {[kind |-> "raise", class |-> c, call |-> n] : c \in ErrorClasses}

\* for attempt in range(1, self.max_retries + 1): is there an attempt left
attempt_in_range(h) == h.attempt <= h.max_retries

\* retry_operation up to the loop: last_error = None, attempt = 1
RetryOperation ==
    /\ handler = None
    /\ \E max_retries \in MaxRetriesValues :
           handler' = [max_retries |-> max_retries,
                       attempt |-> 1,
                       calls |-> 0,
                       last_call |-> None,
                       raised |-> <<>>,
                       last_error |-> None,
                       sleeps |-> 0,
                       outcome |-> None,
                       pc |-> "for"]
    /\ UNCHANGED <<given, segmenter, ctorError, call, result, audio, first,
                   tasks, resources, processor, detection, loop>>

\* one iteration of the loop: the operation is called; its value is
\* returned, or its error is kept as last_error and raised again if it is
\* not retryable, and otherwise the next attempt follows, after a sleep if
\* this was not the last one
CallOperation ==
    /\ handler # None
    /\ handler.pc = "for"
    /\ attempt_in_range(handler)
    /\ \E o \in Outcomes(handler.calls + 1) :
           handler' =
               IF o.kind = "return"
               THEN [handler EXCEPT !.calls = @ + 1, !.last_call = o,
                                    !.outcome = o, !.pc = "done"]
               ELSE IF ~should_retry(o)
               THEN [handler EXCEPT !.calls = @ + 1, !.last_call = o,
                                    !.raised = Append(@, o),
                                    !.last_error = o, !.outcome = o,
                                    !.pc = "done"]
               ELSE [handler EXCEPT !.calls = @ + 1, !.last_call = o,
                                    !.raised = Append(@, o),
                                    !.last_error = o,
                                    !.sleeps = IF handler.attempt
                                                    < handler.max_retries
                                               THEN @ + 1 ELSE @,
                                    !.attempt = @ + 1]
    /\ UNCHANGED <<given, segmenter, ctorError, call, result, audio, first,
                   tasks, resources, processor, detection, loop>>

\* after the loop: the last error is raised, or RuntimeError when there is
\* none
RaiseAfterLoop ==
    /\ handler # None
    /\ handler.pc = "for"
    /\ ~attempt_in_range(handler)
    /\ handler' =
           [handler EXCEPT
               !.outcome = IF handler.last_error # None
                           THEN handler.last_error
                           ELSE [kind |-> "raise", class |-> "RuntimeError",
                                 call |-> 0],
               !.pc = "done"]
    /\ UNCHANGED <<given, segmenter, ctorError, call, result, audio, first,
                   tasks, resources, processor, detection, loop>>

NextRetry ==
    \/ RetryOperation
    \/ CallOperation
    \/ RaiseAfterLoop

SpecRetry == Init /\ [][NextRetry]_vars

(***************************************************************************)
(* LanguageDetector.detect_language (src/src/language/detector.py), one    *)
(* call of the transcription service at a time.  The job has the language  *)
(* code of its result from the start; a poll reports a status or raises.   *)
(***************************************************************************)
\* the language codes that the result of a job may hold; "missing" is a
\* result without "language_code"
JobLanguageCodes == {"en-US", "ja-JP", "fr-FR", "missing"}

\* the statuses that get_transcription_job reports
JobStatuses == {"QUEUED", "IN_PROGRESS", "COMPLETED", "FAILED"}

\* max_tries = 3 if self.test_mode else 60
max_tries_of(test_mode) == IF test_mode THEN 3 ELSE 60

\* language_map.get(result.get("results", {}).get("language_code",
\* "en-US"), "en")
language_map(language_code) ==
    IF language_code = "ja-JP" THEN "ja" ELSE "en"

\* the handler of `except Exception`: the default language is returned
DefaultLanguage == "en"

\* detect_language up to the loop: the upload and the start of the job,
\* either of which may raise
DetectLanguage ==
    /\ detection = None
    /\ \E test_mode \in BOOLEAN, language_code \in JobLanguageCodes,
          started \in BOOLEAN :
           detection' = [test_mode |-> test_mode,
                         language_code |-> language_code,
                         max_tries |-> max_tries_of(test_mode),
                         polls |-> 0,
                         last_status |-> "None",
                         returned |-> IF started THEN "None"
                                      ELSE DefaultLanguage,
                         raised |-> IF started THEN "None"
                                    ELSE "ClientError",
                         pc |-> IF started THEN "while" ELSE "done"]
    /\ UNCHANGED <<given, segmenter, ctorError, call, result, audio, first,
                   tasks, resources, processor, handler, loop>>

\* one iteration of `while max_tries > 0`: the status is polled; COMPLETED
\* breaks the loop, FAILED raises, any other status sleeps; a poll that
\* raises ends the call like FAILED
PollJob ==
    /\ detection # None
    /\ detection.pc = "while"
    /\ detection.max_tries > 0
    /\ \E status \in JobStatuses \cup {"ClientError"} :
           detection' =
               [detection EXCEPT
                   !.max_tries = @ - 1,
                   !.polls = @ + 1,
                   !.last_status = status,
                   !.raised = IF status = "FAILED"
                              THEN "Language detection job failed"
                              ELSE IF status = "ClientError"
                              THEN "ClientError" ELSE @,
                   !.returned = IF status \in {"FAILED", "ClientError"}
                                THEN DefaultLanguage ELSE @,
                   !.pc = IF status \in {"FAILED", "ClientError"}
                          THEN "done"
                          ELSE IF status = "COMPLETED" THEN "after"
                          ELSE "while"]
    /\ UNCHANGED <<given, segmenter, ctorError, call, result, audio, first,
                   tasks, resources, processor, handler, loop>>

\* the loop condition fails
LeavePolling ==
    /\ detection # None
    /\ detection.pc = "while"
    /\ ~(detection.max_tries > 0)
    /\ detection' = [detection EXCEPT !.pc = "after"]
    /\ UNCHANGED <<given, segmenter, ctorError, call, result, audio, first,
                   tasks, resources, processor, handler, loop>>

\* after the loop: the test for a timeout, then the result of the job is
\* read (which may raise) and its language code mapped
ReadJobResult ==
    /\ detection # None
    /\ detection.pc = "after"
    /\ \E read \in BOOLEAN :
           detection' =
               IF detection.max_tries <= 0
               THEN [detection EXCEPT
                        !.raised = "Language detection job timed out",
                        !.returned = DefaultLanguage,
                        !.pc = "done"]
               ELSE IF ~read
               THEN [detection EXCEPT
                        !.raised = "ClientError",
                        !.returned = DefaultLanguage,
                        !.pc = "done"]
               ELSE [detection EXCEPT
                        !.returned = language_map(detection.language_code),
                        !.pc = "done"]
    /\ UNCHANGED <<given, segmenter, ctorError, call, result, audio, first,
                   tasks, resources, processor, handler, loop>>

NextDetect ==
    \/ DetectLanguage
    \/ PollJob
    \/ LeavePolling
    \/ ReadJobResult

SpecDetect == Init /\ [][NextDetect]_vars

(***************************************************************************)
(* Properties.                                                             *)
(***************************************************************************)
StrategyMethods == {"silence", "fixed", "energy"}

Cfg == segmenter.config

AudioCall(method) ==
    /\ call # None
    /\ call.op = "segment_audio"
    /\ call.method = method

EnergyCall ==
    /\ call # None
    /\ \/ call.op = "segment_by_energy"
       \/ call.op = "segment_audio" /\ call.method = "energy"

Returned == result.kind = "return"

Segs == result.segments

D == Duration(call.buffer)

Pairs(segs) == {p \in (1..Len(segs)) \X (1..Len(segs)) : p[1] < p[2]}

Ordered(segs) ==
    \A i \in 1..(Len(segs) - 1) : segs[i].start <= segs[i + 1].start

\* how far the earlier segment of a pair runs into the later one
OverlapOf(segs, p) == segs[p[1]].end - segs[p[2]].start

NonOverlapping(segs) == \A p \in Pairs(segs) : OverlapOf(segs, p) <= 0

\* the full windows of the fixed-length split of a buffer of duration d > S,
\* and what is left after them
WindowCount(config, d) ==
    (d - config.segment_duration) \div (config.segment_duration - config.overlap) + 1

Remainder(config, d) ==
    d - WindowCount(config, d) * (config.segment_duration - config.overlap)

IsFullWindow(config, d, seg) ==
    \E k \in 0..(WindowCount(config, d) - 1) :
        seg = Segment(k * (config.segment_duration - config.overlap),
                      k * (config.segment_duration - config.overlap)
                          + config.segment_duration)

\* C1: for every validated config, every method and every buffer at least
\* min_segment_length long, each segment returned by segment_audio has a
\* length in [min_segment_length, max_segment_length].
C1_SegmentLengthsWithinBounds ==
    (/\ call # None
     /\ call.op = "segment_audio"
     /\ call.method \in StrategyMethods
     /\ Returned
     /\ D >= Cfg.min_segment_length)
    => \A i \in 1..Len(Segs) :
           /\ Cfg.min_segment_length <= SegLen(Segs[i])
           /\ SegLen(Segs[i]) <= Cfg.max_segment_length

FixedLengthsAndDeltas ==
    /\ \A i \in 1..Len(Segs) : SegLen(Segs[i]) <= Cfg.segment_duration
    /\ \A i \in 1..(Len(Segs) - 2) :
           Segs[i + 1].start - Segs[i].start
               = Cfg.segment_duration - Cfg.overlap

\* C2 as stated: in the fixed-length split every segment is at most S long,
\* consecutive starts differ by S - O except possibly for the final segment,
\* and the final segment ends exactly at D.
C2_FinalSegmentEndsAtD ==
    (AudioCall("fixed") /\ Returned)
    => /\ FixedLengthsAndDeltas
       /\ Segs # <<>> => Segs[Len(Segs)].end = D

\* C2 amended: every segment is at most S long, consecutive starts differ by
\* S - O except possibly for the final segment, and the final segment ends
\* exactly at D when D <= S or the remainder after the full windows is at
\* least min_segment_length; a shorter remainder is dropped and the final
\* segment is the last full window, which ends at D - remainder + O.
C2_FixedLengthSplit ==
    (AudioCall("fixed") /\ Returned)
    => /\ FixedLengthsAndDeltas
       /\ Segs # <<>> =>
              Segs[Len(Segs)].end =
                  IF D <= Cfg.segment_duration
                     \/ Remainder(Cfg, D) >= Cfg.min_segment_length
                  THEN D
                  ELSE D - Remainder(Cfg, D) + Cfg.overlap

C2_Witness ==
    /\ AudioCall("fixed") /\ Returned
    /\ D > Cfg.segment_duration
    /\ Cfg.overlap > 0
    /\ Remainder(Cfg, D) > 0
    /\ Remainder(Cfg, D) < Cfg.min_segment_length
    /\ Len(Segs) >= 2
    /\ Segs[Len(Segs)].end < D

\* C3: with D > S, after the full windows, a remainder of at least
\* min_segment_length gives exactly one further segment, which ends exactly
\* at D; a shorter remainder gives nothing further.
C3_RemainderKeptOrDropped ==
    (AudioCall("fixed") /\ Returned /\ D > Cfg.segment_duration)
    => LET further == {i \in 1..Len(Segs) : ~IsFullWindow(Cfg, D, Segs[i])}
       IN  IF Remainder(Cfg, D) >= Cfg.min_segment_length
           THEN /\ further = {Len(Segs)}
                /\ Len(Segs) >= 1
                /\ Segs[Len(Segs)].end = D
           ELSE further = {}

C3_Witness ==
    /\ AudioCall("fixed") /\ Returned
    /\ D > Cfg.segment_duration
    /\ Remainder(Cfg, D) >= Cfg.min_segment_length
    /\ Len(Segs) >= 2
    /\ Segs[Len(Segs)].end = D
    /\ SegLen(Segs[Len(Segs)]) < Cfg.segment_duration

\* every sample of the buffer is above the silence threshold
EntirelyAboveThreshold(buf, config) ==
    \A g \in 1..Len(buf) :
        buf[g] > silence_thresh_amplitude(config.silence_thresh)

\* C4 as stated: split_on_silence on a buffer entirely above the silence
\* threshold returns exactly one segment, the whole buffer, whatever the
\* duration and the validated config.
C4_LoudBufferOneSegment ==
    (AudioCall("silence") /\ EntirelyAboveThreshold(call.buffer, Cfg))
    => result = Return(<<Whole(call.buffer)>>)

\* C4 amended: on a buffer entirely above the silence threshold, with
\* keep_silence >= 0, split_on_silence returns exactly one segment, the
\* whole buffer, when min_segment_length <= D <= max_segment_length; a
\* shorter buffer gives no segment and a longer one its fixed-length split.
C4_LoudBufferWithinBounds ==
    (/\ AudioCall("silence")
     /\ EntirelyAboveThreshold(call.buffer, Cfg)
     /\ Cfg.keep_silence >= 0)
    => IF D < Cfg.min_segment_length THEN result = Return(<<>>)
       ELSE IF D > Cfg.max_segment_length
       THEN result = split_into_fixed_length_segments(Cfg,
                                                      Whole(call.buffer))
       ELSE result = Return(<<Whole(call.buffer)>>)

C4_Witness ==
    /\ AudioCall("silence")
    /\ EntirelyAboveThreshold(call.buffer, Cfg)
    /\ Cfg.keep_silence >= 0
    /\ D >= Cfg.min_segment_length
    /\ D <= Cfg.max_segment_length
    /\ result = Return(<<Whole(call.buffer)>>)

\* C5: no segment returned by segment_by_energy is shorter than
\* min_segment_length, the trailing segment that runs to the end of the
\* buffer included.
C5_EnergySegmentsNotShort ==
    (EnergyCall /\ Returned)
    => \A i \in 1..Len(Segs) : SegLen(Segs[i]) >= Cfg.min_segment_length

\* a trailing run shorter than min_segment_length was dropped, after a
\* segment was returned
C5_Witness ==
    /\ EnergyCall /\ Returned
    /\ call.op = "segment_by_energy"
    /\ Len(Segs) = 1
    /\ Segs[1].end < D
    /\ LET rms == rms_values(call.buffer, Whole(call.buffer))
       IN  Above(rms[Len(rms)], SeqMax(rms), call.energy_threshold)

\* the three invariants of the statement, and the fields of each
ListedInvariants(c) ==
    /\ c.min_silence_len > 0
    /\ c.min_segment_length < c.max_segment_length
    /\ 0 <= c.overlap
    /\ c.overlap < c.segment_duration

ListedViolatedFields(c) ==
    (IF c.min_silence_len > 0 THEN {} ELSE {"min_silence_len"})
    \cup (IF c.min_segment_length < c.max_segment_length THEN {}
          ELSE {"min_segment_length", "max_segment_length"})
    \cup (IF 0 <= c.overlap /\ c.overlap < c.segment_duration THEN {}
          ELSE {"overlap", "segment_duration"})

Constructed == segmenter # None /\ ctorError = None

Rejected == segmenter = None /\ ctorError # None

\* C6 as stated: a config with min_segment_length < max_segment_length,
\* 0 <= overlap < segment_duration and min_silence_len > 0 constructs; one
\* that violates any of these raises an error naming the violated field.
C6_ListedInvariantsDecide ==
    given # None
    => IF ListedInvariants(given) THEN Constructed
       ELSE Rejected /\ ctorError.msg[1] \in ListedViolatedFields(given)

\* C6 amended: a config with min_segment_length > 0, min_segment_length <
\* max_segment_length, 0 <= overlap < segment_duration and
\* min_silence_len > 0 constructs; one that violates any of these raises
\* an error naming a field of a violated invariant.
C6_InvariantsDecide ==
    given # None
    => IF ListedInvariants(given) /\ given.min_segment_length > 0
       THEN Constructed
       ELSE /\ Rejected
            /\ ctorError.msg[1] \in
                   ListedViolatedFields(given)
                   \cup (IF given.min_segment_length > 0 THEN {}
                         ELSE {"min_segment_length"})

\* a config that satisfies the three listed invariants is rejected for its
\* min_segment_length
C6_Witness ==
    /\ given # None
    /\ ListedInvariants(given)
    /\ Rejected
    /\ ctorError.msg[1] = "min_segment_length"

ValidatedInvariants(c) ==
    /\ c.min_silence_len > 0
    /\ c.segment_duration > 0
    /\ c.min_segment_length > 0
    /\ c.max_segment_length > 0
    /\ c.max_segment_length > c.min_segment_length
    /\ 0 <= c.overlap
    /\ c.overlap < c.segment_duration

\* C7 as stated: at every call of a segmentation operation every duration
\* field of the config, keep_silence included, is positive,
\* max_segment_length > min_segment_length and 0 <= overlap <
\* segment_duration.
C7_AllDurationsPositive ==
    call # None => ValidatedInvariants(Cfg) /\ Cfg.keep_silence > 0

\* C7 amended: at every call of a segmentation operation min_silence_len,
\* segment_duration, min_segment_length and max_segment_length are
\* positive, max_segment_length > min_segment_length and 0 <= overlap <
\* segment_duration; keep_silence is not validated and may be zero or
\* negative.
C7_ValidatedAtEveryCall ==
    call # None => segmenter # None /\ ValidatedInvariants(Cfg)

C7_Witness ==
    /\ call # None
    /\ Cfg.keep_silence < 0
    /\ Returned

\* the checks in their order: the field each names and whether c violates it
CheckFields ==
    <<"min_silence_len", "segment_duration", "min_segment_length",
      "max_segment_length", "overlap", "overlap">>

CheckField(k) == CheckFields[k]

Violates(c, k) ==
    CASE k = 1 -> c.min_silence_len <= 0
      [] k = 2 -> c.segment_duration <= 0
      [] k = 3 -> c.min_segment_length <= 0
      [] k = 4 -> c.max_segment_length <= c.min_segment_length
      [] k = 5 -> c.overlap < 0
      [] k = 6 -> c.overlap >= c.segment_duration

FirstViolated(c, k) ==
    Violates(c, k) /\ \A j \in 1..(k - 1) : ~Violates(c, j)

\* C8 as stated: a config violating several invariants raises exactly one
\* error, naming the field of the first violated invariant of the fixed
\* order together with its invalid value, and no segmenter results.
C8_FirstViolationWithValue ==
    (given # None /\ \E k \in 1..Len(CheckFields) : Violates(given, k))
    => /\ Rejected
       /\ \E k \in 1..Len(CheckFields) :
              /\ FirstViolated(given, k)
              /\ ctorError.msg[1] = CheckField(k)
              /\ ToString(given[CheckField(k)]) \in Range(ctorError.msg)

\* C8 amended: a config violating several invariants raises exactly one
\* error, naming the field of the first violated invariant of the fixed
\* order (the message does not carry the invalid value), and no segmenter
\* results.
C8_FirstViolationOnly ==
    (given # None /\ \E k \in 1..Len(CheckFields) : Violates(given, k))
    => /\ Rejected
       /\ ctorError.type = "ValueError"
       /\ \E k \in 1..Len(CheckFields) :
              /\ FirstViolated(given, k)
              /\ ctorError.msg[1] = CheckField(k)

\* a config that violates the first two checks and a later one
C8_Witness ==
    /\ given # None
    /\ Violates(given, 1) /\ Violates(given, 2) /\ Violates(given, 5)
    /\ Rejected
    /\ ctorError.msg[1] = "min_silence_len"

\* C9: segment_audio on an empty buffer returns an empty segment list and
\* does not raise, for each of the three methods.
C9_EmptyBufferEmptyList ==
    (/\ call # None
     /\ call.op = "segment_audio"
     /\ call.method \in StrategyMethods
     /\ call.buffer = <<>>)
    => result = Return(<<>>)

\* C10 as stated: the returned segments are in temporal order for every
\* method, and for the silence and energy methods no two of them overlap.
C10_OrderedAndDisjoint ==
    (call # None /\ Returned)
    => /\ Ordered(Segs)
       /\ (AudioCall("silence") \/ EnergyCall) => NonOverlapping(Segs)

\* C10 amended: the returned segments are in temporal order for every
\* method; for the energy method no two of them overlap; for the silence
\* method two of them overlap by at most the configured overlap (the
\* windows of the fixed-length split of a chunk longer than
\* max_segment_length), so not at all when overlap is 0.
C10_OrderedOverlapBounded ==
    (call # None /\ Returned)
    => /\ Ordered(Segs)
       /\ EnergyCall => NonOverlapping(Segs)
       /\ AudioCall("silence") =>
              \A p \in Pairs(Segs) : OverlapOf(Segs, p) <= Cfg.overlap

\* two chunks of a silence split, the first of them split again into
\* overlapping windows
C10_Witness ==
    /\ AudioCall("silence") /\ Returned
    /\ Len(Segs) >= 3
    /\ OverlapOf(Segs, <<1, 2>>) = Cfg.overlap
    /\ Cfg.overlap > 0
    /\ OverlapOf(Segs, <<2, 3>>) < 0

\* the buffer is silent throughout and long enough for a silence to be
\* detected: detect_nonsilent finds no non-silent interval
SilentThroughout(config, buf) ==
    /\ Duration(buf) >= config.min_silence_len
    /\ \A g \in 1..Len(buf) :
           buf[g] <= silence_thresh_amplitude(config.silence_thresh)

\* C11: when the silence method finds no non-silent interval in the buffer,
\* it returns exactly one segment, the whole input buffer, whatever the
\* buffer's duration (shorter than min_segment_length or longer than
\* max_segment_length included).
C11_SilentBufferReturnedWhole ==
    (AudioCall("silence") /\ SilentThroughout(Cfg, call.buffer))
    => result = Return(<<Whole(call.buffer)>>)

\* a silent buffer longer than max_segment_length, returned whole
C11_Witness ==
    /\ AudioCall("silence")
    /\ SilentThroughout(Cfg, call.buffer)
    /\ D > Cfg.max_segment_length
    /\ Returned
    /\ Segs = <<Whole(call.buffer)>>

ThresholdMessage ==
    <<"energy_threshold", "must", "be", "between", "0", "and", "1">>

\* the call is segment_by_energy with the threshold of the caller
ThresholdCall == call # None /\ call.op = "segment_by_energy"

ThresholdRefused ==
    /\ result.kind = "raise"
    /\ \E k \in 0..(Len(result.msg) - Len(ThresholdMessage)) :
           SubSeq(result.msg, k + 1, k + Len(ThresholdMessage))
               = ThresholdMessage

\* C12 as stated: segment_by_energy accepts a threshold only strictly inside
\* (0, 1); for every threshold <= 0 or >= 1, exactly 0 and exactly 1
\* included, it fails with an error stating that energy_threshold must be
\* between 0 and 1 and returns no segments.
C12_ThresholdStrictlyInside ==
    (/\ ThresholdCall
     /\ \/ call.energy_threshold.num <= 0
        \/ call.energy_threshold.num >= call.energy_threshold.den)
    => ThresholdRefused

\* C12 amended: segment_by_energy refuses exactly the thresholds below 0 or
\* above 1, with an AudioSegmentationError caused by a ValueError stating
\* that energy_threshold must be between 0 and 1; the thresholds 0 and 1
\* themselves are accepted like those between them (a buffer that is not
\* empty is segmented).
C12_ThresholdWithinClosedRange ==
    ThresholdCall
    => LET thr == call.energy_threshold
       IN  /\ (thr.num < 0 \/ thr.num > thr.den)
               => /\ ThresholdRefused
                  /\ result.type = "AudioSegmentationError"
                  /\ result.cause = "ValueError"
           /\ (0 <= thr.num /\ thr.num <= thr.den)
               => /\ ~ThresholdRefused
                  /\ call.buffer # <<>> => Returned

\* a threshold above 1 is refused
C12_Witness ==
    /\ ThresholdCall
    /\ call.energy_threshold.num > call.energy_threshold.den
    /\ call.buffer # <<>>
    /\ ThresholdRefused

\* C13: for every method string other than "silence", "fixed" and "energy",
\* segment_audio fails with a ValueError naming the method: the error is
\* the dispatcher's own (no strategy ran and wrapped it) and no segments
\* are returned.
C13_UnknownMethodValueError ==
    (/\ call # None
     /\ call.op = "segment_audio"
     /\ call.method \notin StrategyMethods)
    => /\ result.kind = "raise"
       /\ result.type = "ValueError"
       /\ result.cause = "None"
       /\ result.msg = <<"Invalid", "segmentation", "method:", call.method>>

\* a method that differs from a known one only in case, on a buffer that
\* the silence strategy would segment
C13_Witness ==
    /\ call # None
    /\ call.op = "segment_audio"
    /\ call.method = "Silence"
    /\ call.buffer # <<>>
    /\ result.kind = "raise"
    /\ call.method \in Range(result.msg)

\* the library call at fault is one the call executes
FaultRaised ==
    /\ call # None
    /\ call.op = "segment_audio"
    /\ \/ call.fault = "stats"
       \/ call.fault = "strategy" /\ call.method \in StrategyMethods

\* C14: an unexpected exception raised by an underlying signal-processing
\* call during segment_audio or one of the three strategies reaches the
\* caller as an AudioSegmentationError whose cause is the original
\* exception: it neither escapes unwrapped nor becomes a segment list.
C14_LibraryFailureWrapped ==
    FaultRaised
    => /\ result.kind = "raise"
       /\ result.type = "AudioSegmentationError"
       /\ result.cause = LibraryError.type

TextCall(language_code) ==
    /\ call # None
    /\ call.op = "process_text"
    /\ call.language_code = language_code

\* C17: the Japanese pipeline is idempotent: processing its own output
\* again as Japanese gives that output back.
C17_JapaneseIdempotent ==
    TextCall("ja") => process_text(result.text, "ja", {}) = result.text

\* a text the pipeline changes: whitespace follows a full stop, and a
\* half-width character is widened
C17_Witness ==
    /\ TextCall("ja")
    /\ \E i \in 1..(Len(call.text) - 2) :
           /\ call.text[i] = "U+3002"
           /\ IsSpace(call.text[i + 1])
           /\ IsSpace(call.text[i + 2])
    /\ "a" \in Range(call.text)
    /\ result.text # call.text
    /\ Len(result.text) >= 2

\* C18: the output of the Japanese pipeline contains no half-width ASCII
\* letter or digit, no half-width space, and no two consecutive ideographic
\* spaces.
C18_JapaneseOutputFullWidth ==
    TextCall("ja")
    => LET out == result.text
       IN  /\ \A i \in 1..Len(out) :
                  out[i] \notin UpperCase \cup LowerCase \cup Digits \cup {" "}
           /\ \A i \in 1..(Len(out) - 1) :
                  ~(out[i] = "U+3000" /\ out[i + 1] = "U+3000")

\* a text with a letter, a digit and a run of two whitespace characters
\* between them
C18_Witness ==
    /\ TextCall("ja")
    /\ \E i \in 1..(Len(call.text) - 3) :
           /\ call.text[i] = "a"
           /\ call.text[i + 1] = " "
           /\ IsSpace(call.text[i + 2])
           /\ call.text[i + 3] = "1"
    /\ result.text = <<"U+FF41", "U+3000", "U+FF11">>

JapaneseMarks == {"U+3002", "U+3001", "U+FF01", "U+FF1F"}

\* C19: in the output of the Japanese pipeline no whitespace character is
\* immediately before or after any of the punctuation marks U+3002, U+3001,
\* U+FF01, U+FF1F.
C19_NoSpaceAroundMarks ==
    TextCall("ja")
    => LET out == result.text
       IN  \A i \in 1..(Len(out) - 1) :
               /\ ~(IsSpace(out[i]) /\ out[i + 1] \in JapaneseMarks)
               /\ ~(out[i] \in JapaneseMarks /\ IsSpace(out[i + 1]))

\* the Other pipeline as the claim states it: every run of whitespace
\* becomes one space, every run of two or more periods three periods, and
\* every other character stays
RECURSIVE OtherAsStated(_)
OtherAsStated(text) ==
    IF text = <<>> THEN <<>>
    ELSE IF IsSpace(text[1])
    THEN <<" ">> \o OtherAsStated(Drop(text, skip_spaces(text, 1)))
    ELSE IF Len(text) >= 2 /\ text[1] = "." /\ text[2] = "."
    THEN LET n == CHOOSE k \in 2..Len(text) :
                      /\ \A j \in 1..k : text[j] = "."
                      /\ (k < Len(text) => text[k + 1] # ".")
         IN  <<".", ".", ".">> \o OtherAsStated(Drop(text, n + 1))
    ELSE <<text[1]>> \o OtherAsStated(Tail(text))

\* without the space at its start and at its end
WithoutOuterSpaces(text) ==
    LET a == IF text # <<>> /\ text[1] = " " THEN 2 ELSE 1
        b == IF Len(text) >= a /\ text[Len(text)] = " "
             THEN Len(text) - 1 ELSE Len(text)
    IN  SubSeq(text, a, b)

OtherCall ==
    /\ call # None
    /\ call.op = "process_text"
    /\ call.language_code \notin {"ja", "en"}

\* C20 as stated: with a language code other than "ja" and "en",
\* process_text collapses every run of whitespace to a single space and
\* every run of two or more periods to exactly three periods, and changes
\* nothing else in the text.
C20_OtherCollapsesOnly ==
    OtherCall => result.text = OtherAsStated(call.text)

\* C20 amended: with a language code other than "ja" and "en",
\* process_text removes the whitespace at the start and at the end of the
\* text, collapses every other run of whitespace to a single space and
\* every run of two or more periods to exactly three periods, and changes
\* nothing else.
C20_OtherCollapsesAndTrims ==
    OtherCall => result.text = WithoutOuterSpaces(OtherAsStated(call.text))

\* whitespace at the start, a run of whitespace inside and a run of two
\* periods
C20_Witness ==
    /\ OtherCall
    /\ Len(call.text) = 4
    /\ IsSpace(call.text[1])
    /\ call.text[3] = "." /\ call.text[4] = "."
    /\ result.text = <<"a", ".", ".", ".">>

AloneResult(task) ==
    IF task.op = "segment_audio"
    THEN segment_audio(given, task.input, task.param)
    ELSE ReturnText(process_text(task.input, task.param, {}))

EmptyTextCall ==
    /\ call # None
    /\ call.op = "process_text"
    /\ call.text = <<>>

C21_EmptyTextReturnedAtOnce ==
    EmptyTextCall =>
        /\ result = ReturnText(<<>>)
        /\ call.pipeline = "none"

\* the empty text is given with a language code that has no pipeline of
\* its own
C21_Witness ==
    /\ EmptyTextCall
    /\ call.language_code \notin {"ja", "en"}
    /\ result = ReturnText(<<>>)

(***************************************************************************)
(* C22: expand_contractions expands every contraction once, a specific     *)
(* pattern (won't, can't) ahead of the generic suffix it contains: the     *)
(* result is the text with each occurrence of a pattern replaced by the    *)
(* expansion of that pattern, "can't" by "cannot" and "won't" by           *)
(* "will not", it holds "ca not" or "wo not" only where the text did, and  *)
(* no pattern of the table occurs in it any more.                          *)
(***************************************************************************)
Occurs(pattern, text) ==
    \E i \in 1..(Len(text) - Len(pattern) + 1) :
        SubSeq(text, i, i + Len(pattern) - 1) = pattern

Patterns ==
    {<<"w", "o", "n", "'", "t">>, <<"c", "a", "n", "'", "t">>,
     <<"n", "'", "t">>, <<"'", "r", "e">>, <<"'", "s">>, <<"'", "d">>,
     <<"'", "l", "l">>, <<"'", "v", "e">>, <<"'", "m">>}

\* the expansion that the table gives for a pattern
ExpansionOf(pattern) ==
    LET k == CHOOSE k \in 1..Len(contractions) :
                 contractions[k][1] = pattern
    IN  contractions[k][2]

\* one pass over the text from the left: where a pattern starts, the
\* longest one that starts there is replaced by its expansion and the pass
\* goes on behind it, so that nothing is expanded twice
RECURSIVE ExpandedOnce(_)
ExpandedOnce(text) ==
    IF text = <<>> THEN <<>>
    ELSE LET here == {p \in Patterns :
                         /\ Len(p) <= Len(text)
                         /\ SubSeq(text, 1, Len(p)) = p}
         IN  IF here = {} THEN <<text[1]>> \o ExpandedOnce(Tail(text))
             ELSE LET p == CHOOSE p \in here :
                               \A q \in here : Len(q) <= Len(p)
                  IN  ExpansionOf(p) \o ExpandedOnce(Drop(text, Len(p) + 1))

ExpandCall ==
    /\ call # None
    /\ call.op = "expand_contractions"

HalfExpanded == {<<"c", "a", " ", "n", "o", "t">>, <<"w", "o", " ", "n", "o", "t">>}

C22_EachContractionExpandedOnce ==
    ExpandCall =>
        /\ result = ReturnText(ExpandedOnce(call.text))
        /\ \A h \in HalfExpanded :
               Occurs(h, result.text) => Occurs(h, call.text)
        /\ \A p \in Patterns : ~Occurs(p, result.text)

\* a text holding "can't" and "won't" next to a generic contraction
C22_Witness ==
    /\ ExpandCall
    /\ Occurs(<<"c", "a", "n", "'", "t">>, call.text)
    /\ Occurs(<<"w", "o", "n", "'", "t">>, call.text)
    /\ Occurs(<<"'", "s">>, call.text)
    /\ Occurs(<<"c", "a", "n", "n", "o", "t">>, result.text)
    /\ Occurs(<<"w", "i", "l", "l", " ", "n", "o", "t">>, result.text)
    /\ Occurs(<<" ", "i", "s">>, result.text)


(***************************************************************************)
(* C23: whatever the text and whatever sentences the tokenizer returns,    *)
(* the output of the English pipeline is the normalized sentences with     *)
(* exactly one space between one and the next, and it holds no two         *)
(* whitespace characters in a row, no ASCII digit directly followed by an  *)
(* ASCII letter, and no run of periods of a length other than 1 or 3.      *)
(***************************************************************************)
EnglishCall ==
    /\ call # None
    /\ call.op = "process_english_text"

\* the sentences that the tokenizer returned in the call
SentencesOf(c) ==
    tokenize(space_after_sentence_end(expand_contractions(c.text)),
             c.cuts, 1)

\* the characters of a text that are not whitespace, in order
Ink(text) == SelectSeq(text, LAMBDA c : ~IsSpace(c))

\* the ways to cut the output into n parts with one space between a part
\* and the next: the positions of the n - 1 separating spaces
Separators(out, n) ==
    {seps \in SUBSET {i \in 2..(Len(out) - 1) : out[i] = " "} :
        Cardinality(seps) = n - 1}

\* the k-th part of the output between the separators
PartOf(out, seps, k) ==
    LET before == {i \in seps : Cardinality({j \in seps : j < i}) = k - 2}
        after == {i \in seps : Cardinality({j \in seps : j < i}) = k - 1}
        from == IF before = {} THEN 1 ELSE (CHOOSE i \in before : TRUE) + 1
        to == IF after = {} THEN Len(out) ELSE (CHOOSE i \in after : TRUE) - 1
    IN  SubSeq(out, from, to)

\* the output is the sentences in order with exactly one space between a
\* sentence and the next, and no whitespace at either end of a sentence
JoinedBySingleSpaces(out, sentences) ==
    \E seps \in Separators(out, Len(sentences)) :
        \A k \in 1..Len(sentences) :
            LET part == PartOf(out, seps, k)
            IN  /\ part # <<>>
                /\ ~IsSpace(part[1])
                /\ ~IsSpace(part[Len(part)])
                /\ Ink(collapse_periods(sentences[k])) = Ink(part)

NoWhitespaceRun(out) ==
    \A i \in 1..(Len(out) - 1) : ~(IsSpace(out[i]) /\ IsSpace(out[i + 1]))

NoDigitBeforeLetter(out) ==
    \A i \in 1..(Len(out) - 1) :
        ~(out[i] \in Digits /\ out[i + 1] \in UpperCase \cup LowerCase)

\* the lengths of the maximal runs of periods
PeriodRuns(out) ==
    {j - i + 1 : <<i, j>> \in
        {r \in (1..Len(out)) \X (1..Len(out)) :
            /\ r[1] <= r[2]
            /\ \A k \in r[1]..r[2] : out[k] = "."
            /\ (r[1] = 1 \/ out[r[1] - 1] # ".")
            /\ (r[2] = Len(out) \/ out[r[2] + 1] # ".")}}

C23_EnglishOutputNormalized ==
    EnglishCall =>
        /\ result.kind = "return"
        /\ Len(SentencesOf(call)) > 1 =>
               JoinedBySingleSpaces(result.text, SentencesOf(call))
        /\ NoWhitespaceRun(result.text)
        /\ NoDigitBeforeLetter(result.text)
        /\ PeriodRuns(result.text) \subseteq {1, 3}

\* two sentences, the first ending in a run of two periods, the second
\* holding a number with a unit
C23_Witness ==
    /\ EnglishCall
    /\ Len(SentencesOf(call)) = 2
    /\ \E i \in 1..(Len(call.text) - 1) :
           call.text[i] \in Digits /\ call.text[i + 1] \in LowerCase
    /\ 2 \in PeriodRuns(call.text)
    /\ 3 \in PeriodRuns(result.text)
    /\ Len(result.text) >= 7

(***************************************************************************)
(* C24: on a machine where the punkt resource of the sentence tokenizer is *)
(* not at hand, the construction of the text processor ends in an error    *)
(* (ImportError, the code's error for a missing dependency): no processor  *)
(* is constructed and no English text is normalized.                       *)
(***************************************************************************)
ResourceMissing ==
    /\ resources # None
    /\ ~resources.punkt

C24_MissingResourceRefused ==
    (ResourceMissing /\ processor # None) =>
        /\ processor.kind = "raise"
        /\ processor.type = "ImportError"
        /\ call = None

(***************************************************************************)
(* C25: for a validated config and a buffer that is not empty, the         *)
(* fixed-length split returns at least one segment and every segment it    *)
(* returns is at least min_segment_length and at most segment_duration     *)
(* long.                                                                   *)
(***************************************************************************)
C25_FixedSegmentsBetweenMinAndDuration ==
    (AudioCall("fixed") /\ Returned /\ D > 0)
    => /\ Len(Segs) >= 1
       /\ \A i \in 1..Len(Segs) :
              /\ SegLen(Segs[i]) >= Cfg.min_segment_length
              /\ SegLen(Segs[i]) <= Cfg.segment_duration

(***************************************************************************)
(* C26: when non-silent intervals exist, the result of split_on_silence is *)
(* made of the chunks of the silence split, taken in order: a chunk        *)
(* shorter than min_segment_length gives nothing, a chunk longer than      *)
(* max_segment_length gives its fixed-length split, any other chunk gives  *)
(* itself.                                                                 *)
(***************************************************************************)
NonsilentRanges ==
    detect_nonsilent(call.buffer, Whole(call.buffer), Cfg.min_silence_len,
                     Cfg.silence_thresh)

\* the chunks that the silence split of the library produces from the
\* non-silent ranges
ChunksOf(nonsilent) ==
    pydub_split_on_silence(Whole(call.buffer), nonsilent, Cfg.keep_silence)

\* what a chunk contributes to the result
Contribution(chunk) ==
    IF SegLen(chunk) < Cfg.min_segment_length THEN <<>>
    ELSE IF SegLen(chunk) > Cfg.max_segment_length
    THEN split_into_fixed_length_segments(Cfg, chunk).segments
    ELSE <<chunk>>

\* the contributions of the first n chunks, one after the other
RECURSIVE Contributions(_, _)
Contributions(chunks, n) ==
    IF n = 0 THEN <<>>
    ELSE Contributions(chunks, n - 1) \o Contribution(chunks[n])

C26_SilenceResultFromChunks ==
    (AudioCall("silence") /\ Returned)
    => LET nonsilent == NonsilentRanges
       IN  nonsilent # <<>> =>
               LET chunks == ChunksOf(nonsilent)
               IN  Segs = Contributions(chunks, Len(chunks))

\* two chunks, one of them too long and cut into several segments
C26_Witness ==
    /\ AudioCall("silence")
    /\ Returned
    /\ Len(Segs) >= 3
    /\ LET nonsilent == NonsilentRanges
       IN  /\ nonsilent # <<>>
           /\ LET chunks == ChunksOf(nonsilent)
              IN  /\ Len(chunks) >= 2
                  /\ \E k \in 1..Len(chunks) :
                         /\ SegLen(chunks[k]) > Cfg.max_segment_length
                         /\ Len(Contribution(chunks[k])) >= 2

(***************************************************************************)
(* C27: the segments that segment_by_energy returns are, in order, exactly *)
(* the maximal runs of consecutive 100 ms windows whose rms, divided by    *)
(* the largest window rms of the buffer, is strictly greater than the      *)
(* threshold, the runs shorter than min_segment_length left out.  A run    *)
(* starts at its first window and ends where the next inactive window      *)
(* starts, or at the end of the buffer when it reaches it.                 *)
(***************************************************************************)
\* the threshold of the call: the caller's, or the default of segment_audio
EnergyThreshold ==
    IF call.op = "segment_by_energy" THEN call.energy_threshold
    ELSE DefaultThreshold

WindowRms == rms_values(call.buffer, Whole(call.buffer))

\* rms / max > threshold, the ratio and the threshold being rationals
Active(rms, max, i) ==
    rms[i] * EnergyThreshold.den > EnergyThreshold.num * max

\* the maximal runs of active windows, as pairs of first and last window
ActiveRuns(rms, max) ==
    LET active == {i \in 1..Len(rms) : Active(rms, max, i)}
    IN  {r \in active \X active :
            /\ r[1] <= r[2]
            /\ \A i \in r[1]..r[2] : i \in active
            /\ (r[1] - 1) \notin active
            /\ (r[2] + 1) \notin active}

\* the segment of a run of windows, the last of n windows ending with the
\* buffer
RunSegment(r, n) ==
    Segment((r[1] - 1) * 100, IF r[2] = n THEN D ELSE r[2] * 100)

KeptRunSegments(rms, max) ==
    {RunSegment(r, Len(rms)) : r \in {q \in ActiveRuns(rms, max) :
        SegLen(RunSegment(q, Len(rms))) >= Cfg.min_segment_length}}

C27_EnergySegmentsAreActiveRuns ==
    (EnergyCall /\ Returned)
    => LET rms == WindowRms
           max == SeqMax(rms)
           kept == KeptRunSegments(rms, max)
       IN  /\ Range(Segs) = kept
           /\ Len(Segs) = Cardinality(kept)
           /\ \A i \in 1..(Len(Segs) - 1) : Segs[i].end < Segs[i + 1].start
           /\ \A i \in 1..Len(rms) : 0 <= rms[i] /\ rms[i] <= max

\* two runs are returned with an inactive window between them, the second
\* reaching the end of the buffer
C27_Witness ==
    /\ EnergyCall
    /\ Returned
    /\ Len(Segs) = 2
    /\ Segs[1].end < Segs[2].start
    /\ Segs[2].end = D
    /\ LET rms == WindowRms
       IN  Cardinality(ActiveRuns(rms, SeqMax(rms))) = 2

(***************************************************************************)
(* C28: for a validated config and a finite buffer the fixed-length split  *)
(* terminates: every iteration of the window loop moves the start offset   *)
(* on by segment_duration - overlap, which is at least 1, the loop makes   *)
(* at most D / (segment_duration - overlap) + 1 iterations, and a call     *)
(* that has entered the loop leaves it.                                    *)
(***************************************************************************)
InLoop == loop # None /\ loop.pc = "while"

LoopLeft == loop # None /\ loop.pc = "done"

LoopStride == loop.config.segment_duration - loop.config.overlap

LoopBounded ==
    loop # None =>
        /\ LoopStride >= 1
        /\ loop.start = loop.iterations * LoopStride
        /\ loop.iterations
               <= SegLen(loop.audio_segment) \div LoopStride + 1
        /\ LoopLeft => loop.segments =
               split_into_fixed_length_segments(loop.config,
                   loop.audio_segment).segments

C28_FixedLoopTerminates == []LoopBounded /\ (InLoop ~> LoopLeft)

\* the loop was left after three iterations of a stride smaller than the
\* window
C28_Witness ==
    /\ LoopLeft
    /\ loop.iterations >= 3
    /\ loop.config.overlap > 0

(***************************************************************************)
(* C29: retry_operation calls the operation at least once and at most      *)
(* max_retries times, and it ends in one of three ways: it returns the     *)
(* value of the first call that succeeds and calls no more; it raises a    *)
(* non-retryable error right after the call that raised it; or, after      *)
(* max_retries retryable failures, it raises the last error the operation  *)
(* raised.                                                                 *)
(***************************************************************************)
RetryDone == handler # None /\ handler.pc = "done"

ReturnedFirstSuccess ==
    /\ handler.outcome.kind = "return"
    /\ handler.outcome = handler.last_call
    /\ handler.outcome.call = handler.calls

RaisedNonRetryable ==
    /\ handler.outcome.kind = "raise"
    /\ ~IsRetryableError(handler.outcome)
    /\ handler.outcome = handler.last_call
    /\ handler.outcome.call = handler.calls

RaisedLastRetryable ==
    /\ handler.outcome.kind = "raise"
    /\ Len(handler.raised) = handler.max_retries
    /\ \A k \in 1..Len(handler.raised) : IsRetryableError(handler.raised[k])
    /\ handler.calls = handler.max_retries
    /\ handler.outcome = handler.raised[Len(handler.raised)]

C29_RetryEndsInOneOfThreeWays ==
    handler # None =>
        /\ handler.calls <= handler.max_retries
        /\ RetryDone =>
               /\ handler.calls >= 1
               /\ \/ ReturnedFirstSuccess
                  \/ RaisedNonRetryable
                  \/ RaisedLastRetryable

(***************************************************************************)
(* C30: detect_language polls the status of the job at most max_tries      *)
(* times (3 in test mode, 60 otherwise) and raises nothing.  When a poll,  *)
(* the last allowed one included, reports COMPLETED, it returns the        *)
(* language mapped from the result of the job, "ja" for ja-JP and "en"     *)
(* for en-US; when a poll reports FAILED or no poll reports COMPLETED it    *)
(* returns "en".                                                           *)
(***************************************************************************)
DetectDone == detection # None /\ detection.pc = "done"

\* a poll reported COMPLETED and the result of the job was there to read
JobCompleted ==
    /\ detection.last_status = "COMPLETED"
    /\ detection.raised \notin {"ClientError"}

C30_DetectReturnsMappedOrDefault ==
    detection # None =>
        /\ detection.polls <= max_tries_of(detection.test_mode)
        /\ DetectDone =>
               /\ detection.returned \in {"en", "ja"}
               /\ JobCompleted =>
                      detection.returned =
                          IF detection.language_code = "ja-JP" THEN "ja"
                          ELSE "en"
               /\ detection.last_status # "COMPLETED" =>
                      detection.returned = "en"

====
